---- MODULE Spec2Model ----
(***************************************************************************)
(* Model of app.py, the rule-based shopping assistant: the filter          *)
(* extractor (extract_filters), the product matcher (search_products), the *)
(* response renderer (respond_like_bot) and the dialogue state machine     *)
(* (generate_reply) driven from the Search Products chat loop.             *)
(*                                                                         *)
(* Text is modelled as TLA+ strings, character by character (TLC evaluates *)
(* Len, SubSeq and \o on strings).  Python's None is the empty tuple and a *)
(* present value x is the one-element tuple <<x>>, so that None never has  *)
(* to be compared with a string or a number.  Prices are in cents.  The    *)
(* emoji and typographic apostrophes of the reply templates are left out   *)
(* or written in ASCII; no claim reads them.                               *)
(***************************************************************************)
EXTENDS Integers, Sequences, FiniteSets, TLC

VARIABLES catalog, context, prev_context, user_input, bot_reply, search_call,
          conversation, compare_history, preferences, cart, applied_coupon,
          reminders, alerts, reviews, orders, probe

vars == <<catalog, context, prev_context, user_input, bot_reply, search_call,
          conversation, compare_history, preferences, cart, applied_coupon,
          reminders, alerts, reviews, orders, probe>>

\* The session state outside the context and the transcript.
features == <<compare_history, preferences, cart, applied_coupon, reminders, alerts,
              reviews, orders>>

(***************************************************************************)
(* Optional values.                                                        *)
(***************************************************************************)
None == << >>

Some(x) == <<x>>

\* Python truthiness of an optional string: None and "" are falsy.
TruthyStr(o) == o # None /\ o[1] # ""

\* Python truthiness of an optional integer: None and 0 are falsy.
TruthyInt(o) == o # None /\ o[1] # 0

(***************************************************************************)
(* Strings.                                                                *)
(***************************************************************************)
Ch(s, i) == SubSeq(s, i, i)

\* p occurs in s starting at index i.
StartsAt(s, p, i) == /\ i >= 1
                     /\ i + Len(p) - 1 <= Len(s)
                     /\ SubSeq(s, i, i + Len(p) - 1) = p

\* Python's `p in s`.
Contains(s, p) == \E i \in 1..(Len(s) - Len(p) + 1) : StartsAt(s, p, i)

UpperChars == "ABCDEFGHIJKLMNOPQRSTUVWXYZ"

LowerChars == "abcdefghijklmnopqrstuvwxyz"

DigitChars == "0123456789"

\* The one-character strings of alphabet.
CharSet(alphabet) == {Ch(alphabet, i) : i \in 1..Len(alphabet)}

\* The 1-based position of each character of alphabet in it.
IndexOf(alphabet) ==
    [c \in CharSet(alphabet) |-> CHOOSE i \in 1..Len(alphabet) : Ch(alphabet, i) = c]

UpperSet == CharSet(UpperChars)

LowerSet == CharSet(LowerChars)

DigitSet == CharSet(DigitChars)

UpperIndex == IndexOf(UpperChars)

DigitIndex == IndexOf(DigitChars)

LowerCh(c) == IF c \in UpperSet THEN Ch(LowerChars, UpperIndex[c]) ELSE c

\* Bind(v, F) is F(v) with v evaluated once, however often F uses it.
Bind(v, F(_)) == CHOOSE r \in {F(x) : x \in {v}} : TRUE

RECURSIVE lower(_)
\* str.lower()
lower(s) == IF s = "" THEN ""
            ELSE LowerCh(Ch(s, 1)) \o lower(SubSeq(s, 2, Len(s)))

LowerIndex == IndexOf(LowerChars)

UpperCh(c) == IF c \in LowerSet THEN Ch(UpperChars, LowerIndex[c]) ELSE c

RECURSIVE upper(_)
\* str.upper()
upper(s) == IF s = "" THEN ""
            ELSE UpperCh(Ch(s, 1)) \o upper(SubSeq(s, 2, Len(s)))

IsSpace(c) == c \in {" ", "\t", "\n", "\r", "\f"}

IsDigit(c) == c \in DigitSet

\* \w of the re module, on the ASCII text the model uses.
IsWordChar(c) == c \in LowerSet \/ c \in UpperSet \/ c \in DigitSet \/ c = "_"

RECURSIVE strip(_)
\* str.strip()
strip(s) == IF s = "" THEN ""
            ELSE IF IsSpace(Ch(s, 1)) THEN strip(SubSeq(s, 2, Len(s)))
            ELSE IF IsSpace(Ch(s, Len(s))) THEN strip(SubSeq(s, 1, Len(s) - 1))
            ELSE s

RECURSIVE ParseInt(_)
\* int(digits) for a non-empty string of decimal digits.
ParseInt(d) == IF d = "" THEN 0
               ELSE 10 * ParseInt(SubSeq(d, 1, Len(d) - 1))
                    + (DigitIndex[Ch(d, Len(d))] - 1)

RECURSIVE IntStr(_)
\* str(n) for n >= 0.
IntStr(n) == IF n < 10 THEN Ch(DigitChars, n + 1)
             ELSE IntStr(n \div 10) \o Ch(DigitChars, (n % 10) + 1)

\* The first index >= i of s that holds no whitespace (Len(s)+1 at the end): \s*
SkipSpace(s, i) ==
    IF \E j \in i..Len(s) : ~IsSpace(Ch(s, j))
    THEN CHOOSE j \in i..Len(s) :
            /\ ~IsSpace(Ch(s, j))
            /\ \A k \in i..(j - 1) : IsSpace(Ch(s, k))
    ELSE Len(s) + 1

\* The first index >= i of s that holds no digit: the end of a greedy \d*
SkipDigits(s, i) ==
    IF \E j \in i..Len(s) : ~IsDigit(Ch(s, j))
    THEN CHOOSE j \in i..Len(s) :
            /\ ~IsDigit(Ch(s, j))
            /\ \A k \in i..(j - 1) : IsDigit(Ch(s, k))
    ELSE Len(s) + 1

(***************************************************************************)
(* re.search for "<keyword>\s*\$?\s*(\d+)" (extract_filters) and for       *)
(* "<keyword>\s*\$?(\d+)" (the gate of generate_reply).  The character     *)
(* classes of the tail are disjoint, so backtracking never finds a second  *)
(* way to match it from the same keyword.                                  *)
(***************************************************************************)
\* The digits captured when the tail \s*\$?\s*(\d+) (spaceAfterDollar) or
\* \s*\$?(\d+) (otherwise) matches s from index j; None when it does not.
BudgetTail(s, j, spaceAfterDollar) ==
    LET j1 == SkipSpace(s, j)
        j2 == IF j1 <= Len(s) /\ Ch(s, j1) = "$" THEN j1 + 1 ELSE j1
        j3 == IF spaceAfterDollar THEN SkipSpace(s, j2) ELSE j2
    IN  IF j3 <= Len(s) /\ IsDigit(Ch(s, j3))
        THEN Some(SubSeq(s, j3, SkipDigits(s, j3) - 1))
        ELSE None

\* The alternatives of kws (in order) that match s at index i, tail included.
AltsAt(s, i, kws, spaceAfterDollar) ==
    {k \in 1..Len(kws) :
        /\ StartsAt(s, kws[k], i)
        /\ BudgetTail(s, i + Len(kws[k]), spaceAfterDollar) # None}

\* re.search: group(1) of the leftmost match, first alternative first; None
\* when the pattern matches nowhere.
BudgetSearch(s, kws, spaceAfterDollar) ==
    LET hits == {i \in 1..Len(s) : AltsAt(s, i, kws, spaceAfterDollar) # {}}
    IN  IF hits = {} THEN None
        ELSE LET i == CHOOSE h \in hits : \A g \in hits : h <= g
                 alts == AltsAt(s, i, kws, spaceAfterDollar)
                 k == CHOOSE a \in alts : \A b \in alts : a <= b
             IN  BudgetTail(s, i + Len(kws[k]), spaceAfterDollar)

\* (?:under|less|below)
LessKeywords == <<"under", "less", "below">>

\* (?:more than|above|over|greater(?: than)?)
MoreKeywords == <<"more than", "above", "over", "greater than", "greater">>

\* (?:under|less|below|more than|above|over|greater)
GateKeywords == <<"under", "less", "below", "more than", "above", "over", "greater">>

m_less(text) == BudgetSearch(text, LessKeywords, TRUE)

m_more(text) == BudgetSearch(text, MoreKeywords, TRUE)

\* BudgetGate that asks for a keyword alone.
BudgetGate_KeywordOnly(text) ==
    \E k \in 1..Len(GateKeywords) : Contains(text, GateKeywords[k])

\* re.search(r"(?:under|less|below|more than|above|over|greater)\s*\$?(\d+)", text)
BudgetGate(text) == BudgetSearch(text, GateKeywords, FALSE) # None

(***************************************************************************)
(* difflib.get_close_matches(word, possibilities, n=1) with the default    *)
(* cutoff 0.6.  SequenceMatcher.ratio() is 2*M/T, M the characters in the  *)
(* matching blocks and T the two lengths added; the texts are far shorter  *)
(* than the 200 characters at which the autojunk heuristic starts.  The    *)
(* quick-ratio tests of get_close_matches are upper bounds of ratio() and  *)
(* do not change its result.  Offsets are 0-based and ranges half-open, as *)
(* in difflib.                                                             *)
(***************************************************************************)
RECURSIVE CommonRun(_, _, _, _, _, _)
\* The length of the longest common run of a[i:ahi] and b[j:bhi] from i and j.
CommonRun(a, b, i, j, ahi, bhi) ==
    IF i < ahi /\ j < bhi /\ Ch(a, i + 1) = Ch(b, j + 1)
    THEN 1 + CommonRun(a, b, i + 1, j + 1, ahi, bhi)
    ELSE 0

\* The smallest block of blocks in the order (start in a, start in b).
Earliest(blocks) ==
    CHOOSE m \in blocks : \A n \in blocks :
        m[1] < n[1] \/ (m[1] = n[1] /\ m[2] <= n[2])

\* SequenceMatcher.find_longest_match: <<i, j, k>>, the longest block, the
\* earliest in a among the longest, the earliest in b among those.
find_longest_match(a, b, alo, ahi, blo, bhi) ==
    Bind({<<i, j, CommonRun(a, b, i, j, ahi, bhi)>> :
                i \in alo..(ahi - 1), j \in blo..(bhi - 1)},
         LAMBDA blocks :
            Bind({m[3] : m \in blocks},
                 LAMBDA sizes :
                    IF \A k \in sizes : k = 0 THEN <<alo, blo, 0>>
                    ELSE Bind(CHOOSE k \in sizes : \A k2 \in sizes : k >= k2,
                              LAMBDA best :
                                 Bind({m \in blocks : m[3] = best}, Earliest))))

RECURSIVE MatchedChars(_, _, _, _, _, _)
\* The sum of the sizes of SequenceMatcher.get_matching_blocks().
MatchedChars(a, b, alo, ahi, blo, bhi) ==
    Bind(find_longest_match(a, b, alo, ahi, blo, bhi),
         LAMBDA m :
            IF m[3] = 0 THEN 0
            ELSE m[3]
                 + (IF alo < m[1] /\ blo < m[2]
                    THEN MatchedChars(a, b, alo, m[1], blo, m[2]) ELSE 0)
                 + (IF m[1] + m[3] < ahi /\ m[2] + m[3] < bhi
                    THEN MatchedChars(a, b, m[1] + m[3], ahi, m[2] + m[3], bhi) ELSE 0))

\* The numerator and denominator of SequenceMatcher(None, x, word).ratio().
ratio(x, word) ==
    IF Len(x) + Len(word) = 0 THEN <<1, 1>>
    ELSE <<2 * MatchedChars(x, word, 0, Len(x), 0, Len(word)), Len(x) + Len(word)>>

\* The characters of the catalog and the utterances in code-point order.
CodePointOrder == " !$&'-0123456789?ABCDEFGHIJKLMNOPQRSTUVWXYZ_abcdefghijklmnopqrstuvwxyz"

CodePoint == IndexOf(CodePointOrder)

RECURSIVE StrLess(_, _)
\* Python's s < t on strings.
StrLess(s, t) ==
    IF t = "" THEN FALSE
    ELSE IF s = "" THEN TRUE
    ELSE IF Ch(s, 1) = Ch(t, 1) THEN StrLess(SubSeq(s, 2, Len(s)), SubSeq(t, 2, Len(t)))
    ELSE CodePoint[Ch(s, 1)] < CodePoint[Ch(t, 1)]

\* get_close_matches(word, possibilities, n=1): the candidates scoring at least
\* 0.6, the largest (score, candidate) pair first; <<>> when there is none.
get_close_matches(word, possibilities) ==
    Bind([k \in 1..Len(possibilities) |-> ratio(possibilities[k], word)],
         LAMBDA score :
            LET good == {k \in 1..Len(possibilities) : 10 * score[k][1] >= 6 * score[k][2]}
                Better(x, y) ==
                    \/ score[x][1] * score[y][2] > score[y][1] * score[x][2]
                    \/ /\ score[x][1] * score[y][2] = score[y][1] * score[x][2]
                       /\ ~StrLess(possibilities[x], possibilities[y])
            IN  IF good = {} THEN << >>
                ELSE <<possibilities[CHOOSE x \in good : \A y \in good : Better(x, y)]>>)

(***************************************************************************)
(* The catalog.  A catalog is the table after loading: its column names,   *)
(* lowercased and trimmed, its rows (functions from the column names), and *)
(* the column roles detected from the names.  A price is Some(cents), or   *)
(* None for a value pd.to_numeric coerced to NaN.  df is the built-in      *)
(* table app.py falls back to without the CSV file, and the dialogue runs  *)
(* on it.                                                                  *)
(***************************************************************************)
Row(item, category, color, cents, location, brand) ==
    [c \in {"item purchased", "category", "color", "price usd", "location", "brand"} |->
        CASE c = "item purchased" -> item
          [] c = "category" -> category
          [] c = "color" -> color
          [] c = "price usd" -> Some(cents)
          [] c = "location" -> location
          [] c = "brand" -> brand]

df_columns == <<"item purchased", "category", "color", "price usd", "location", "brand">>

df == << Row("Blue Jeans", "Bottoms", "Blue", 4999, "Vancouver", "DenimCo"),
         Row("Black Sneakers", "Shoes", "Black", 6999, "Toronto", "RunFast"),
         Row("White T-Shirt", "Tops", "White", 1999, "Kamloops", "CottonClub"),
         Row("Red Dress", "Dresses", "Red", 8999, "Calgary", "Elegance"),
         Row("Green Hoodie", "Outerwear", "Green", 5999, "Vancouver", "WarmWear"),
         Row("Yellow Scarf", "Accessories", "Yellow", 1499, "Kamloops", "Silky") >>

\* DetectColumn that takes the last column that matches.
DetectColumn_Last(columns, keywords) ==
    LET hits == {k \in 1..Len(columns) : \E x \in keywords : Contains(columns[k], x)}
    IN  IF hits = {} THEN None
        ELSE Some(columns[CHOOSE k \in hits : \A h \in hits : k >= h])

\* next((c for c in df.columns if any(x in c for x in keywords)), None)
DetectColumn(columns, keywords) ==
    LET hits == {k \in 1..Len(columns) : \E x \in keywords : Contains(columns[k], x)}
    IN  IF hits = {} THEN None
        ELSE Some(columns[CHOOSE k \in hits : \A h \in hits : k <= h])

\* The keywords of each column role.
RoleKeywords == [item |-> {"item"},
                 price |-> {"price", "amount", "cost", "usd"},
                 color |-> {"color"},
                 category |-> {"category"},
                 size |-> {"size"},
                 brand |-> {"brand", "company"},
                 stock |-> {"stock", "availability"}]

\* df.columns = df.columns.str.lower().str.strip()
NormalizeColumns(headers) == [k \in 1..Len(headers) |-> strip(lower(headers[k]))]

\* item_col, price_col, color_col, category_col, size_col, brand_col and
\* stock_col for the columns of df.
ColumnRoles(columns) ==
    [role \in DOMAIN RoleKeywords |-> DetectColumn(columns, RoleKeywords[role])]

\* The module globals after the table is loaded: df and the detected columns
\* that the product matcher reads.
Catalog(columns, rows) ==
    [columns |-> columns, rows |-> rows,
     item_col |-> DetectColumn(columns, RoleKeywords.item),
     price_col |-> DetectColumn(columns, RoleKeywords.price),
     color_col |-> DetectColumn(columns, RoleKeywords.color),
     category_col |-> DetectColumn(columns, RoleKeywords.category)]

\* The catalog of the built-in table.
BuiltIn == Catalog(df_columns, df)

item_col == BuiltIn.item_col

price_col == BuiltIn.price_col

color_col == BuiltIn.color_col

category_col == BuiltIn.category_col

RECURSIVE Unique(_)
\* Series.unique(): the values in order of first appearance.
Unique(seq) ==
    IF seq = << >> THEN << >>
    ELSE LET init == Unique(SubSeq(seq, 1, Len(seq) - 1))
             last == seq[Len(seq)]
         IN  IF \E k \in 1..Len(init) : init[k] = last THEN init ELSE Append(init, last)

\* [x.lower() for x in df[item_col].dropna().unique().tolist()], [] without item_col
lower_items ==
    IF item_col = None THEN << >>
    ELSE LET items == Unique([k \in 1..Len(df) |-> df[k][item_col[1]]])
         IN  [k \in 1..Len(items) |-> lower(items[k])]

(***************************************************************************)
(* find_product                                                            *)
(***************************************************************************)
\* Series.str.contains(re.escape(needle), case=False, na=False) on one value.
ContainsNoCase(value, needle) == Contains(lower(value), lower(needle))

\* df[col].dropna().unique(): the values of the column col of the catalog cat
\* in order of first appearance.
ColumnValues(cat, col) == Unique([k \in 1..Len(cat.rows) |-> cat.rows[k][col]])

\* The first value of values whose lowercase form txt contains, None when
\* there is none.
FirstLowerContained(values, txt) ==
    LET hits == {k \in 1..Len(values) : Contains(txt, lower(values[k]))}
    IN  IF hits = {} THEN None
        ELSE Some(values[CHOOSE k \in hits : \A h \in hits : k <= h])

\* The color guess of find_product: color_match.
ResolveColor(cat, txt) ==
    IF cat.color_col = None THEN None
    ELSE FirstLowerContained(ColumnValues(cat, cat.color_col[1]), txt)

\* The item guess of find_product, item_match: the first item txt contains,
\* else the item whose lowercase form is the closest fuzzy match.
ResolveItem(cat, txt) ==
    IF cat.item_col = None THEN None
    ELSE Bind(ColumnValues(cat, cat.item_col[1]),
              LAMBDA unique_items :
                 Bind(FirstLowerContained(unique_items, txt),
                      LAMBDA exact :
                         IF TruthyStr(exact) \/ unique_items = << >> THEN exact
                         ELSE Bind(get_close_matches(txt,
                                      [k \in 1..Len(unique_items) |->
                                          lower(unique_items[k])]),
                                   LAMBDA hit :
                                      LET same == {k \in 1..Len(unique_items) :
                                                      lower(unique_items[k])
                                                         = (IF hit # << >> THEN hit[1]
                                                            ELSE "")}
                                      IN  IF same = {} THEN None
                                          ELSE Some(unique_items[
                                                  CHOOSE k \in same :
                                                     \A h \in same : k <= h]))))

\* The rows find_product keeps for the item and the color it guessed.
ProductRows(cat, item_match, color_match) ==
    SelectSeq(cat.rows,
              LAMBDA r :
                 /\ cat.item_col # None
                       => ContainsNoCase(r[cat.item_col[1]], item_match[1])
                 /\ (TruthyStr(color_match) /\ cat.color_col # None)
                       => ContainsNoCase(r[cat.color_col[1]], color_match[1]))

\* find_product with the color guess left out of the filter.
find_product_AnyColor(cat, search_text) ==
    Bind(ResolveItem(cat, lower(search_text)),
         LAMBDA item_match :
            IF ~TruthyStr(item_match) THEN None
            ELSE Bind(ProductRows(cat, item_match, None),
                      LAMBDA filtered :
                         IF filtered # << >> THEN Some(filtered[1]) ELSE None))

\* find_product on the catalog cat: Some(row), or None.
find_product(cat, search_text) ==
    Bind(ResolveItem(cat, lower(search_text)),
         LAMBDA item_match :
            IF ~TruthyStr(item_match) THEN None
            ELSE Bind(ProductRows(cat, item_match,
                                  ResolveColor(cat, lower(search_text))),
                      LAMBDA filtered :
                         IF filtered # << >> THEN Some(filtered[1]) ELSE None))

(***************************************************************************)
(* extract_filters                                                         *)
(***************************************************************************)
colors == <<"black", "blue", "white", "red", "green", "yellow", "pink", "purple",
            "grey", "gray", "brown", "maroon">>

\* The first element of seq that text contains, None when there is none.
FirstContained(seq, text) ==
    LET hits == {k \in 1..Len(seq) : Contains(text, seq[k])}
    IN  IF hits = {} THEN None
        ELSE Some(seq[CHOOSE k \in hits : \A h \in hits : k <= h])

\* ExtractBudget with the more pattern tried first.
ExtractBudget_MoreFirst(text) ==
    IF m_more(text) # None
    THEN [budget |-> Some(ParseInt(m_more(text)[1])), price_type |-> Some("more")]
    ELSE IF m_less(text) # None
    THEN [budget |-> Some(ParseInt(m_less(text)[1])), price_type |-> Some("less")]
    ELSE [budget |-> None, price_type |-> None]

\* The budget and direction of extract_filters: the less pattern is tried first.
ExtractBudget(text) ==
    IF m_less(text) # None
    THEN [budget |-> Some(ParseInt(m_less(text)[1])), price_type |-> Some("less")]
    ELSE IF m_more(text) # None
    THEN [budget |-> Some(ParseInt(m_more(text)[1])), price_type |-> Some("more")]
    ELSE [budget |-> None, price_type |-> None]

\* The color of extract_filters: the first color of the list the text contains,
\* "gray" reported as "grey".
ExtractColor(text) ==
    LET found_color == FirstContained(colors, text)
    IN  IF found_color = Some("gray") THEN Some("grey") ELSE found_color

\* The item of extract_filters: the first catalog item the text contains, else
\* the closest fuzzy match, else None.
ExtractItem(text) ==
    LET found_item == FirstContained(lower_items, text)
    IN  IF ~TruthyStr(found_item) /\ lower_items # << >>
        THEN LET hit == get_close_matches(text, lower_items)
             IN  IF hit # << >> THEN Some(hit[1]) ELSE None
        ELSE found_item

extract_filters(user_text) ==
    LET text == lower(user_text)
        b == ExtractBudget(text)
    IN  [item |-> ExtractItem(text), color |-> ExtractColor(text),
         budget |-> b.budget, price_type |-> b.price_type]

(***************************************************************************)
(* search_products                                                         *)
(***************************************************************************)
RECURSIVE OrdersOf(_, _, _)
\* The orders of the rows of index in S that ascend by price.
OrdersOf(rows, by, S) ==
    IF S = {} THEN {<< >>}
    ELSE UNION {{<<rows[k]>> \o t : t \in OrdersOf(rows, by, S \ {k})} :
                   k \in {j \in S : \A i \in S : rows[j][by][1] <= rows[i][by][1]}}

\* results.sort_values(by=price_col, ascending=True).  The sort is the default
\* one (kind="quicksort"), which does not keep rows of equal price in their
\* order in rows: every order that ascends by price is a possible outcome.
SortByPrice(rows, by) == OrdersOf(rows, by, 1..Len(rows))

\* results.head(n)
Head3 == 3

head(rows, n) == SubSeq(rows, 1, IF Len(rows) < n THEN Len(rows) ELSE n)

\* WithinBudget with strict comparisons.
WithinBudget_Strict(price, budget, price_type) ==
    IF price_type = Some("less") THEN price # None /\ price[1] < 100 * budget[1]
    ELSE IF price_type = Some("more") THEN price # None /\ price[1] > 100 * budget[1]
    ELSE TRUE

\* The budget filter of search_products on one price: price <= float(budget)
\* when price_type is "less", price >= float(budget) when it is "more", no
\* test otherwise.  A comparison with NaN is false.
WithinBudget(price, budget, price_type) ==
    IF price_type = Some("less") THEN price # None /\ price[1] <= 100 * budget[1]
    ELSE IF price_type = Some("more") THEN price # None /\ price[1] >= 100 * budget[1]
    ELSE TRUE

\* The rows search_products keeps before it sorts them: the filters by item,
\* color and budget, then dropna on the price.
Filtered(cat, item, color, budget, price_type) ==
    LET ItemOk(r) == (TruthyStr(item) /\ cat.item_col # None)
                        => ContainsNoCase(r[cat.item_col[1]], item[1])
        ColorOk(r) == (TruthyStr(color) /\ cat.color_col # None)
                        => ContainsNoCase(r[cat.color_col[1]], color[1])
        BudgetOk(r) == (budget # None /\ cat.price_col # None)
                          => WithinBudget(r[cat.price_col[1]], budget, price_type)
        Priced(r) == cat.price_col # None => r[cat.price_col[1]] # None
        Keep(r) == ItemOk(r) /\ ColorOk(r) /\ BudgetOk(r) /\ Priced(r)
    IN  SelectSeq(cat.rows, Keep)

\* SearchOutcomes that returns the first rows left, in catalog order.
SearchOutcomes_Unsorted(cat, item, color, budget, price_type) ==
    Bind(Filtered(cat, item, color, budget, price_type),
         LAMBDA results : IF results = << >> THEN {None} ELSE {head(results, Head3)})

\* What a call of search_products on the catalog cat can return: None (the
\* empty tuple) when no row is left, else the first rows of a sorted order.
SearchOutcomes(cat, item, color, budget, price_type) ==
    Bind(Filtered(cat, item, color, budget, price_type),
         LAMBDA results :
            IF results = << >> THEN {None}
            ELSE IF cat.price_col # None
            THEN {head(sorted, Head3) : sorted \in SortByPrice(results, cat.price_col[1])}
            ELSE {head(results, Head3)})

\* search_products on a catalog on which the call has one outcome, as on the
\* built-in table, where no two rows have the same price.
search_products(cat, item, color, budget, price_type) ==
    CHOOSE results \in SearchOutcomes(cat, item, color, budget, price_type) : TRUE

(***************************************************************************)
(* respond_like_bot                                                        *)
(***************************************************************************)
\* f"${cents/100:.2f}"
FormatPrice(cents) ==
    "$" \o IntStr(cents \div 100) \o "."
        \o IntStr((cents % 100) \div 10) \o IntStr(cents % 10)

\* x or default, for an optional string
OrElse(o, default) == IF TruthyStr(o) THEN o[1] ELSE default

\* The intro sentence of respond_like_bot.
Intro(item, color, budget, price_type) ==
    IF price_type = Some("less") /\ TruthyInt(budget)
    THEN "Here are some " \o OrElse(color, "") \o " " \o OrElse(item, "items")
            \o " under $" \o IntStr(budget[1])
    ELSE IF price_type = Some("more") /\ TruthyInt(budget)
    THEN "Here are some " \o OrElse(color, "") \o " " \o OrElse(item, "items")
            \o " over $" \o IntStr(budget[1])
    ELSE "Here are some " \o OrElse(color, "") \o " " \o OrElse(item, "items")
            \o " I think you'll love"

\* The two lines respond_like_bot writes for one row of the catalog cat.
RowText(cat, row) ==
    LET name == IF cat.item_col # None THEN row[cat.item_col[1]] ELSE "Item"
        color_val == IF cat.color_col # None THEN row[cat.color_col[1]] ELSE "-"
        price_val == IF cat.price_col # None /\ row[cat.price_col[1]] # None
                     THEN FormatPrice(row[cat.price_col[1]][1]) ELSE "N/A"
        category_val == IF cat.category_col # None THEN row[cat.category_col[1]] ELSE "-"
    IN  "**" \o name \o "** - " \o price_val \o "\n"
        \o "   Category: " \o category_val \o " | Color: " \o color_val \o "\n\n"

RECURSIVE RowsText(_, _)
RowsText(cat, rows) ==
    IF rows = << >> THEN ""
    ELSE RowText(cat, rows[1]) \o RowsText(cat, SubSeq(rows, 2, Len(rows)))

respond_like_bot(cat, results, item, color, budget, price_type) ==
    Intro(item, color, budget, price_type) \o "\n\n" \o RowsText(cat, results)
        \o "Would you like me to show *similar* or *cheaper* options next?"

(***************************************************************************)
(* The comparison of the Compare Products screen.                          *)
(***************************************************************************)
\* The index after the match of \s+vs\s+|\s+and\s+ that starts at index i of s,
\* 0 when the pattern does not match there.  \s+ is greedy, and giving back
\* whitespace never helps the match.
SeparatorEnd(s, i) ==
    IF i > Len(s) \/ ~IsSpace(Ch(s, i)) THEN 0
    ELSE Bind(SkipSpace(s, i),
              LAMBDA j :
                 IF StartsAt(s, "vs", j) /\ j + 2 <= Len(s) /\ IsSpace(Ch(s, j + 2))
                 THEN SkipSpace(s, j + 2)
                 ELSE IF StartsAt(s, "and", j) /\ j + 3 <= Len(s) /\ IsSpace(Ch(s, j + 3))
                 THEN SkipSpace(s, j + 3)
                 ELSE 0)

RECURSIVE Split(_)
\* re.split(r"\s+vs\s+|\s+and\s+", s)
Split(s) ==
    LET starts == {i \in 1..Len(s) : SeparatorEnd(s, i) > 0}
    IN  IF starts = {} THEN <<s>>
        ELSE LET i == CHOOSE a \in starts : \A b \in starts : a <= b
             IN  <<SubSeq(s, 1, i - 1)>> \o Split(SubSeq(s, SeparatorEnd(s, i), Len(s)))

\* f"${p[price_col]:.2f}" if price_col else "-"
PriceCell(cat, p) ==
    IF cat.price_col = None THEN "-"
    ELSE IF p[cat.price_col[1]] = None THEN "$nan"
    ELSE FormatPrice(p[cat.price_col[1]][1])

\* The column of comp_data for the product p.
ProductCells(cat, p) ==
    <<PriceCell(cat, p),
      IF cat.color_col # None THEN p[cat.color_col[1]] ELSE "-",
      IF cat.category_col # None THEN p[cat.category_col[1]] ELSE "-">>

\* f"{p[item_col]} ({p[color_col]})"
ProductKey(cat, p) == p[cat.item_col[1]] \o " (" \o p[cat.color_col[1]] \o ")"

\* The dict comp_data: a later key replaces an equal earlier one.
ComparisonTable(cat, p1, p2) ==
    [key \in {"Attribute", ProductKey(cat, p1), ProductKey(cat, p2)} |->
        IF key = ProductKey(cat, p2) THEN ProductCells(cat, p2)
        ELSE IF key = ProductKey(cat, p1) THEN ProductCells(cat, p1)
        ELSE <<"Price", "Color", "Category">>]

\* Compare, but one resolved product is enough for a table.
Compare_PartialTable(cat, user_compare) ==
    Bind(Split(lower(user_compare)),
         LAMBDA match :
            IF Len(match) < 2 THEN [outcome |-> "info"]
            ELSE Bind(<<find_product(cat, strip(match[1])),
                        find_product(cat, strip(match[2]))>>,
                      LAMBDA p :
                         IF p[1] = None /\ p[2] = None THEN [outcome |-> "warning"]
                         ELSE IF cat.item_col = None \/ cat.color_col = None
                         THEN [outcome |-> "KeyError"]
                         ELSE Bind(<<IF p[1] # None THEN p[1][1] ELSE p[2][1],
                                     IF p[2] # None THEN p[2][1] ELSE p[1][1]>>,
                                   LAMBDA q :
                                      [outcome |-> "appended",
                                       entry |-> [p1 |-> q[1][cat.item_col[1]],
                                                  c1 |-> q[1][cat.color_col[1]],
                                                  p2 |-> q[2][cat.item_col[1]],
                                                  c2 |-> q[2][cat.color_col[1]],
                                                  table |-> ComparisonTable(cat, q[1],
                                                                            q[2])]])))

\* What the screen does with the input user_compare on the catalog cat:
\* "appended" with the entry for compare_history, "warning" (could not find
\* both items), "info" (use the format product1 vs product2), or "KeyError"
\* when p[item_col] or p[color_col] is read with the column missing, which
\* stops the run before anything is stored.
Compare(cat, user_compare) ==
    Bind(Split(lower(user_compare)),
         LAMBDA match :
            IF Len(match) < 2 THEN [outcome |-> "info"]
            ELSE Bind(<<find_product(cat, strip(match[1])),
                        find_product(cat, strip(match[2]))>>,
                      LAMBDA p :
                         IF p[1] = None \/ p[2] = None THEN [outcome |-> "warning"]
                         ELSE IF cat.item_col = None \/ cat.color_col = None
                         THEN [outcome |-> "KeyError"]
                         ELSE [outcome |-> "appended",
                               entry |-> [p1 |-> p[1][1][cat.item_col[1]],
                                          c1 |-> p[1][1][cat.color_col[1]],
                                          p2 |-> p[2][1][cat.item_col[1]],
                                          c2 |-> p[2][1][cat.color_col[1]],
                                          table |-> ComparisonTable(cat, p[1][1],
                                                                    p[2][1])]]))

(***************************************************************************)
(* The dialogue state machine: generate_reply.                             *)
(***************************************************************************)
\* The chat inputs of the model: single-line utterances that take every branch
\* of generate_reply and every case of the budget grammar.
Utterances ==
    { "hi", "Bye!", "thank you", "i know", "ok under 50",
      "jeans", "red dress", "black", "gray hoodie",
      "blue jeans under 80", "under $80", "under 0", "over 50", "more than 100",
      "over 50 under 80", "under $ 50", "greater than 50" }

stop_words == <<"no", "stop", "thanks", "thank you", "bye", "ok", "okay", "cancel">>

\* re.fullmatch(rf".*\b{re.escape(w)}\b.*", text): w occurs in text between two
\* word boundaries, and text holds no newline ("." does not match one).  Every
\* stop word starts and ends with a word character, so \b asks for a non-word
\* character, or the end of the text, on the outside.
FullMatchWord(text, w) ==
    /\ ~Contains(text, "\n")
    /\ \E i \in 1..Len(text) :
          /\ StartsAt(text, w, i)
          /\ (i = 1 \/ ~IsWordChar(Ch(text, i - 1)))
          /\ (i + Len(w) > Len(text) \/ ~IsWordChar(Ch(text, i + Len(w))))

\* any(re.fullmatch(...) for w in stop_words)
StopMatch(text) == \E k \in 1..Len(stop_words) : FullMatchWord(text, stop_words[k])

\* text = (user_input or "").lower().strip()
ReplyText(input) == strip(lower(input))

\* What generate_reply computes from the utterance alone, evaluated once for each
\* utterance: its text, the stop-phrase test, the budget gate and extract_filters.
parsed ==
    [u \in Utterances |->
        Bind(ReplyText(u),
             LAMBDA text : [text |-> text, stop |-> StopMatch(text),
                            gate |-> BudgetGate(text), filters |-> extract_filters(text)])]

\* The state of st.session_state["context"] after construction.
InitContext == [item |-> None, color |-> None, budget |-> None, price_type |-> None,
                step |-> "greet"]

\* search_products(item, color, budget, price_type) called once, and the reply
\* built from what it returned: respond_like_bot, or apology when it returned
\* None.  ctx is the context the turn leaves.
SearchAndReply(ctx, item, color, budget, price_type, apology) ==
    Bind(search_products(BuiltIn, item, color, budget, price_type),
         LAMBDA results :
            [context |-> ctx,
             reply |-> IF results # None
                       THEN respond_like_bot(BuiltIn, results, item, color, budget,
                                             price_type)
                       ELSE apology,
             search |-> Some([item |-> item, color |-> color, budget |-> budget,
                              price_type |-> price_type, results |-> results])])

\* CancelBranch with the budget and the direction left as they were.
CancelBranch_KeepsBudget(ctx) ==
    [context |-> [ctx EXCEPT !.step = "greet", !.item = None, !.color = None],
     reply |-> "Alright Have a wonderful shopping day!",
     search |-> None]

\* CancelBranch with the item and the color left as they were.
CancelBranch_KeepsItem(ctx) ==
    [context |-> [ctx EXCEPT !.step = "greet", !.budget = None, !.price_type = None],
     reply |-> "Alright Have a wonderful shopping day!",
     search |-> None]

\* The quick-exit branch of generate_reply: the context is reset.
CancelBranch(ctx) ==
    [context |-> [ctx EXCEPT !.step = "greet", !.item = None, !.color = None,
                             !.budget = None, !.price_type = None],
     reply |-> "Alright Have a wonderful shopping day!",
     search |-> None]

\* BudgetBranch that also takes the item and the color from the utterance.
BudgetBranch_TakesItem(ctx, f) ==
    SearchAndReply([ctx EXCEPT !.item = f.item, !.color = f.color,
                               !.budget = f.budget, !.price_type = f.price_type],
                   f.item, f.color, f.budget, f.price_type,
                   "I couldn't find any " \o OrElse(f.item, "items") \o " in that range")

\* The budget branch of generate_reply: f is extract_filters(text).
BudgetBranch(ctx, f) ==
    SearchAndReply([ctx EXCEPT !.budget = f.budget, !.price_type = f.price_type],
                   ctx.item, ctx.color, f.budget, f.price_type,
                   "I couldn't find any " \o OrElse(ctx.item, "items") \o " in that range")

\* GreetStep that starts the new search without the stored budget.
GreetStep_DropsBudget(ctx) ==
    [context |-> [ctx EXCEPT !.step = "ask_item", !.budget = None, !.price_type = None],
     reply |-> "Hey there! What are you shopping for today? (e.g., jeans, shoes, dresses)",
     search |-> None]

\* if context["step"] == "greet"
GreetStep(ctx) ==
    [context |-> [ctx EXCEPT !.step = "ask_item"],
     reply |-> "Hey there! What are you shopping for today? (e.g., jeans, shoes, dresses)",
     search |-> None]

\* AskItemStep that stores the item alone.
AskItemStep_DropsColor(ctx, f) ==
    [context |-> [ctx EXCEPT !.item = f.item, !.step = "ask_color"],
     reply |-> "Nice choice! Do you have a color preference for your "
                    \o OrElse(f.item, "item") \o "?",
     search |-> None]

\* AskItemStep that goes straight to ask_budget when the utterance gave a color.
AskItemStep_SkipsColor(ctx, f) ==
    [context |-> [ctx EXCEPT !.item = f.item, !.color = f.color,
                             !.step = IF TruthyStr(f.color) THEN "ask_budget"
                                      ELSE "ask_color"],
     reply |-> "Nice choice! Do you have a color preference for your "
                    \o OrElse(f.item, "item") \o "?",
     search |-> None]

\* if context["step"] == "ask_item"
AskItemStep(ctx, f) ==
    [context |-> [ctx EXCEPT !.item = f.item, !.color = f.color, !.step = "ask_color"],
     reply |-> "Nice choice! Do you have a color preference for your "
                    \o OrElse(f.item, "item") \o "?",
     search |-> None]

\* AskColorStep that stores the extracted color even when there is none.
AskColorStep_Overwrites(ctx, f) ==
    [context |-> [ctx EXCEPT !.color = f.color, !.step = "ask_budget"],
     reply |-> "Great! What's your budget range? (e.g., under 100 or more than 150)",
     search |-> None]

\* AskColorStep that also takes the item the utterance names.
AskColorStep_TakesItem(ctx, f) ==
    [context |-> [ctx EXCEPT !.color = IF TruthyStr(f.color) THEN f.color ELSE @,
                             !.item = IF TruthyStr(f.item) THEN f.item ELSE @,
                             !.step = "ask_budget"],
     reply |-> "Great! What's your budget range? (e.g., under 100 or more than 150)",
     search |-> None]

\* if context["step"] == "ask_color"
AskColorStep(ctx, f) ==
    [context |-> [ctx EXCEPT !.color = IF TruthyStr(f.color) THEN f.color ELSE @,
                             !.step = "ask_budget"],
     reply |-> "Great! What's your budget range? (e.g., under 100 or more than 150)",
     search |-> None]

\* AskBudgetStep that starts the dialogue over once it has searched.
AskBudgetStep_Restarts(ctx, f) ==
    SearchAndReply([ctx EXCEPT !.budget = f.budget, !.price_type = f.price_type,
                               !.step = "greet"],
                   ctx.item, ctx.color, f.budget, f.price_type,
                   "Hmm, I didn't find anything in that range Maybe try another color or price range?")

\* AskBudgetStep that forgets the color once it has searched without a budget.
AskBudgetStep_ForgetsColor(ctx, f) ==
    SearchAndReply([ctx EXCEPT !.budget = f.budget, !.price_type = f.price_type,
                               !.color = IF f.budget = None THEN None ELSE @],
                   ctx.item, ctx.color, f.budget, f.price_type,
                   "Hmm, I didn't find anything in that range Maybe try another color or price range?")

\* AskBudgetStep that leaves the four steps once it has searched.
AskBudgetStep_Finishes(ctx, f) ==
    SearchAndReply([ctx EXCEPT !.budget = f.budget, !.price_type = f.price_type,
                               !.step = "done"],
                   ctx.item, ctx.color, f.budget, f.price_type,
                   "Hmm, I didn't find anything in that range Maybe try another color or price range?")

\* AskBudgetStep that stores the budget and leaves the direction as it was.
AskBudgetStep_KeepsDirection(ctx, f) ==
    SearchAndReply([ctx EXCEPT !.budget = f.budget],
                   ctx.item, ctx.color, f.budget, ctx.price_type,
                   "Hmm, I didn't find anything in that range Maybe try another color or price range?")

\* if context["step"] == "ask_budget"
AskBudgetStep(ctx, f) ==
    SearchAndReply([ctx EXCEPT !.budget = f.budget, !.price_type = f.price_type],
                   ctx.item, ctx.color, f.budget, f.price_type,
                   "Hmm, I didn't find anything in that range Maybe try another color or price range?")

Clarify == "I didn't quite get that - could you please clarify?"

\* The fallback at the end of generate_reply.
Fallback(ctx, f) ==
    IF TruthyStr(f.item) \/ TruthyStr(f.color) \/ TruthyInt(f.budget)
    THEN Bind(SearchAndReply([ctx EXCEPT !.item = f.item, !.color = f.color,
                                         !.budget = f.budget,
                                         !.price_type = f.price_type,
                                         !.step = IF ~TruthyStr(f.color)
                                                  THEN "ask_color" ELSE "ask_budget"],
                             f.item, f.color, f.budget, f.price_type, Clarify),
              LAMBDA r : IF r.search[1].results # None THEN r
                         ELSE [r EXCEPT !.context = ctx])
    ELSE [context |-> ctx, reply |-> Clarify, search |-> None]

\* Reply with the budget gate tested before the stop phrases.
Reply_GateFirst(ctx, p) ==
    IF p.gate THEN BudgetBranch(ctx, p.filters)
    ELSE IF p.stop THEN CancelBranch(ctx)
    ELSE IF ctx.step = "greet" THEN GreetStep(ctx)
    ELSE IF ctx.step = "ask_item" THEN AskItemStep(ctx, p.filters)
    ELSE IF ctx.step = "ask_color" THEN AskColorStep(ctx, p.filters)
    ELSE IF ctx.step = "ask_budget" THEN AskBudgetStep(ctx, p.filters)
    ELSE Fallback(ctx, p.filters)

\* The body of generate_reply on the session context ctx, p being what it
\* computes from the utterance (parsed): the context it leaves, the reply it
\* returns and the search it ran (None when it ran none).
Reply(ctx, p) ==
    IF p.stop THEN CancelBranch(ctx)
    ELSE IF p.gate THEN BudgetBranch(ctx, p.filters)
    ELSE IF ctx.step = "greet" THEN GreetStep(ctx)
    ELSE IF ctx.step = "ask_item" THEN AskItemStep(ctx, p.filters)
    ELSE IF ctx.step = "ask_color" THEN AskColorStep(ctx, p.filters)
    ELSE IF ctx.step = "ask_budget" THEN AskBudgetStep(ctx, p.filters)
    ELSE Fallback(ctx, p.filters)

generate_reply(ctx, input) == Reply(ctx, parsed[input])

(***************************************************************************)
(* The session.  user_input and bot_reply are the utterance and the reply  *)
(* of the last turn of the chat loop; search_call records the call of      *)
(* search_products that turn made and prev_context the context it started  *)
(* from.  user_input is None before the first turn and after a clear.      *)
(* catalog is the table the script loaded, here the built-in one.          *)
(*                                                                         *)
(* conversation, compare_history, preferences, cart and applied_coupon are *)
(* the entries of st.session_state of these names.  Spec follows the       *)
(* context through calls of generate_reply, which reads none of them; the  *)
(* chat loop with its transcript and the other screens are the actions of  *)
(* SessionSpec.  reminders, alerts and reviews are the entries of these    *)
(* names, the two dicts as functions on their keys (the empty dict is the  *)
(* empty tuple).  orders is the entry "orders", None while the session     *)
(* state has no such key.  probe records a call of a function made on its  *)
(* own.                                                                    *)
(***************************************************************************)
\* The state of st.session_state after construction, the context apart.
InitSession ==
    /\ conversation = << >>
    /\ compare_history = << >>
    /\ preferences = [color |-> None, category |-> None]
    /\ cart = << >>
    /\ applied_coupon = None
    /\ reminders = << >>
    /\ alerts = << >>
    /\ reviews = << >>
    /\ orders = None

Init == /\ catalog = BuiltIn
        /\ context = InitContext
        /\ prev_context = InitContext
        /\ user_input = None
        /\ bot_reply = None
        /\ search_call = None
        /\ InitSession
        /\ probe = None

\* The call that also empties the cart and drops the coupon.
CallGenerateReply_EmptiesCart(u) ==
    \E r \in {generate_reply(context, u)} :
        /\ user_input' = Some(u)
        /\ prev_context' = context
        /\ context' = r.context
        /\ bot_reply' = Some(r.reply)
        /\ search_call' = r.search
        /\ cart' = << >>
        /\ applied_coupon' = None
        /\ UNCHANGED <<catalog, compare_history, preferences, reminders, alerts, reviews,
                       orders>>

\* The call that runs generate_reply a second time on the context the first
\* run left, and returns the second reply.
CallGenerateReply_Twice(u) ==
    \E r1 \in {generate_reply(context, u)} :
        \E r \in {generate_reply(r1.context, u)} :
            /\ user_input' = Some(u)
            /\ prev_context' = context
            /\ context' = r.context
            /\ bot_reply' = Some(r.reply)
            /\ search_call' = r.search
            /\ UNCHANGED <<catalog, features>>

\* The call bot_reply = generate_reply(user_input) of the chat loop: it works
\* on st.session_state["context"] and reads the catalog.
CallGenerateReply(u) ==
    \E r \in {generate_reply(context, u)} :
        /\ user_input' = Some(u)
        /\ prev_context' = context
        /\ context' = r.context
        /\ bot_reply' = Some(r.reply)
        /\ search_call' = r.search
        /\ UNCHANGED <<catalog, features>>

\* One user turn of the Search Products chat loop, the transcript apart.
UserTurn(u) ==
    /\ CallGenerateReply(u)
    /\ UNCHANGED <<conversation, probe>>

\* ClearNow that empties the transcript and resets the context, and keeps
\* the rest of the session state.
ClearNow_ChatOnly ==
    /\ context' = InitContext
    /\ prev_context' = context
    /\ user_input' = None
    /\ bot_reply' = None
    /\ search_call' = None
    /\ conversation' = << >>
    /\ probe' = None
    /\ UNCHANGED <<catalog, features>>

\* "Clear Now" on the Clear Chat History screen: st.session_state.clear(), and
\* the next run of the script builds the session state again.
ClearNow ==
    /\ context' = InitContext
    /\ prev_context' = context
    /\ user_input' = None
    /\ bot_reply' = None
    /\ search_call' = None
    /\ conversation' = << >>
    /\ compare_history' = << >>
    /\ preferences' = [color |-> None, category |-> None]
    /\ cart' = << >>
    /\ applied_coupon' = None
    /\ reminders' = << >>
    /\ alerts' = << >>
    /\ reviews' = << >>
    /\ orders' = None
    /\ probe' = None
    /\ UNCHANGED catalog

Next == \/ \E u \in Utterances : UserTurn(u)
        \/ ClearNow

Spec == Init /\ [][Next]_vars

(***************************************************************************)
(* The product matcher on its own.  The table comes from a CSV file, so    *)
(* the catalog is an input: up to MaxRows rows of a pool that has a row    *)
(* without a price, two rows of equal price, a row priced at a budget and  *)
(* an item whose name is part of the others', under the columns of the     *)
(* built-in table or with one of them missing.                             *)
(* search_call records the one call of search_products made on it.         *)
(***************************************************************************)
MaxRows == 4

\* The row with its price coerced to NaN.
Unpriced(row) == [row EXCEPT !["price usd"] = None]

RowPool == { Row("Blue Jeans", "Bottoms", "Blue", 4999, "Vancouver", "DenimCo"),
             Row("Black Jeans", "Bottoms", "Black", 5000, "Toronto", "DenimCo"),
             Unpriced(Row("Red Dress", "Dresses", "Red", 0, "Calgary", "Elegance")),
             Row("Jeans Jacket", "Outerwear", "Blue", 7999, "Vancouver", "WarmWear"),
             Row("Jeans", "Bottoms", "black", 4999, "Kamloops", "DenimCo") }

\* The sequences of at most n distinct elements of S.
DistinctSeqs(S, n) ==
    UNION { {q \in [1..k -> S] : \A i, j \in 1..k : q[i] = q[j] => i = j} : k \in 0..n }

\* The sequence seq without its elements in drop.
Without(seq, drop) == SelectSeq(seq, LAMBDA c : c \notin drop)

ColumnChoices == { Without(df_columns, drop) :
                      drop \in {{}, {"item purchased"}, {"color"}, {"price usd"},
                                {"category"}} }

\* The row with the columns of columns alone.
Project(row, columns) == [c \in {columns[k] : k \in 1..Len(columns)} |-> row[c]]

Catalogs ==
    { Catalog(columns, [k \in 1..Len(rows) |-> Project(rows[k], columns)]) :
         columns \in ColumnChoices, rows \in DistinctSeqs(RowPool, MaxRows) }

ItemArgs == {None, Some(""), Some("jeans"), Some("dress")}

ColorArgs == {None, Some("blue"), Some("black")}

BudgetArgs == {None, Some(0), Some(20), Some(50)}

PriceTypeArgs == {None, Some("less"), Some("more")}

SearchInit == /\ catalog \in Catalogs
              /\ context = InitContext
              /\ prev_context = InitContext
              /\ user_input = None
              /\ bot_reply = None
              /\ search_call = None
              /\ InitSession
              /\ probe = None

\* One call search_products(item, color, budget, price_type), and the call of
\* respond_like_bot that generate_reply makes on a result that is not empty.
SearchCall(item, color, budget, price_type) ==
    /\ search_call = None
    /\ \E results \in SearchOutcomes(catalog, item, color, budget, price_type) :
          /\ search_call' = Some([item |-> item, color |-> color, budget |-> budget,
                                  price_type |-> price_type, results |-> results])
          /\ bot_reply' = IF results # None
                          THEN Some(respond_like_bot(catalog, results, item, color,
                                                     budget, price_type))
                          ELSE None
    /\ UNCHANGED <<catalog, context, prev_context, user_input, conversation, features,
                   probe>>

SearchNext == \E item \in ItemArgs, color \in ColorArgs, budget \in BudgetArgs,
                 price_type \in PriceTypeArgs :
                 SearchCall(item, color, budget, price_type)

SearchSpec == SearchInit /\ [][SearchNext]_vars

(***************************************************************************)
(* The Search Products chat loop with its transcript, for sessions of at   *)
(* most MaxTurns turns between two clears.                                 *)
(***************************************************************************)
MaxTurns == 2

\* One user turn of the chat loop: the utterance is appended to the
\* transcript, generate_reply is called, its reply is appended.
ChatTurn(u) ==
    /\ Len(conversation) < 2 * MaxTurns
    /\ CallGenerateReply(u)
    /\ conversation' = conversation \o << <<"You", u>>, <<"Bot", bot_reply'[1]>> >>
    /\ UNCHANGED probe

MaxCompares == 2

\* The Compare Products screen on one input.  probe records the input, what
\* the screen did with it and the history it started from.
CompareInput(text) ==
    /\ Len(compare_history) < MaxCompares
    /\ \E r \in {Compare(catalog, text)} :
          /\ compare_history' = IF r.outcome = "appended"
                                THEN Append(compare_history, r.entry)
                                ELSE compare_history
          /\ probe' = Some([op |-> "compare", text |-> text, outcome |-> r.outcome,
                            before |-> compare_history])
    /\ UNCHANGED <<catalog, context, prev_context, user_input, bot_reply, search_call,
                   conversation, preferences, cart, applied_coupon, reminders, alerts,
                   reviews, orders>>

ChatNext == \/ \E u \in Utterances : ChatTurn(u)
            \/ ClearNow

ChatSpec == Init /\ [][ChatNext]_vars

(***************************************************************************)
(* A session that moves between the Search Products chat and the screens   *)
(* that keep the cart, the coupon, the preferences and the comparisons, on *)
(* the built-in catalog.                                                   *)
(***************************************************************************)
\* st.session_state["coupons"]
coupons == [WELCOME10 |-> [type |-> "percent", value |-> 10],
            SAVE15 |-> [type |-> "percent", value |-> 15],
            FLAT5 |-> [type |-> "flat", value |-> 5]]

\* st.session_state["past_orders"]
past_orders == << [item |-> "Blue Jeans", qty |-> 1, price |-> 4999],
                  [item |-> "Black Sneakers", qty |-> 1, price |-> 6999],
                  [item |-> "White T-Shirt", qty |-> 2, price |-> 1999] >>

\* The colors the Personalized Recommendations screen looks for.
preference_colors == <<"black", "blue", "white", "red", "green", "yellow", "pink",
                       "purple", "grey", "brown", "maroon">>

MaxCart == 1

\* The ends of the range of the quantity input of Reorder Quickly.
Quantities == {1, 10}

\* Reorder Quickly, Add to Cart: past order idx, qty times.
Reorder(idx, qty) ==
    /\ Len(cart) < MaxCart
    /\ cart' = Append(cart, [name |-> past_orders[idx].item, qty |-> qty,
                             price |-> Some(past_orders[idx].price)])
    /\ UNCHANGED <<catalog, context, prev_context, user_input, bot_reply, search_call,
                   conversation, compare_history, preferences, applied_coupon, reminders,
                   alerts, reviews, orders, probe>>

\* Discounts & Promo Codes, Apply Code: the input is shown only for a cart
\* that is not empty.
ApplyCode(code) ==
    /\ cart # << >>
    /\ \E c \in {upper(strip(code))} :
          applied_coupon' = IF c \in DOMAIN coupons THEN Some(c) ELSE applied_coupon
    /\ UNCHANGED <<catalog, context, prev_context, user_input, bot_reply, search_call,
                   conversation, compare_history, preferences, cart, reminders, alerts,
                   reviews, orders, probe>>

\* Personalized Recommendations on one input.
Recommend(user_pref) ==
    /\ \E found_color \in {FirstContained(preference_colors, lower(user_pref))},
          found_category \in {IF catalog.category_col = None THEN None
                              ELSE FirstLowerContained(
                                      ColumnValues(catalog, catalog.category_col[1]),
                                      lower(user_pref))} :
          preferences' = [color |-> IF found_color # None THEN found_color
                                    ELSE preferences.color,
                          category |-> IF found_category # None THEN found_category
                                       ELSE preferences.category]
    /\ UNCHANGED <<catalog, context, prev_context, user_input, bot_reply, search_call,
                   conversation, compare_history, cart, applied_coupon, reminders, alerts,
                   reviews, orders, probe>>

SessionUtterances == {"hi", "under $80"}

CouponCodes == {" save15 ", "SAVE20"}

PreferenceTexts == {"I love blue tops"}

SessionCompareTexts == {"blue jeans vs red dress", "blue jeans vs laptop"}

SessionNext ==
    \/ \E u \in SessionUtterances : ChatTurn(u)
    \/ \E idx \in 1..Len(past_orders), qty \in Quantities : Reorder(idx, qty)
    \/ \E code \in CouponCodes : ApplyCode(code)
    \/ \E user_pref \in PreferenceTexts : Recommend(user_pref)
    \/ \E text \in SessionCompareTexts : CompareInput(text)
    \/ ClearNow

SessionSpec == Init /\ [][SessionNext]_vars

(***************************************************************************)
(* The screens that keep the reminders, the alerts and the reviews: Cart   *)
(* Reminder, Back-in-Stock Alerts and Product Reviews.  Their inputs hold  *)
(* no line break.                                                          *)
(***************************************************************************)
IsLetter(c) == c \in LowerSet \/ c \in UpperSet

RECURSIVE TitleFrom(_, _)
\* s in title case, afterLetter telling whether a letter comes before s.
TitleFrom(s, afterLetter) ==
    IF s = "" THEN ""
    ELSE (IF afterLetter THEN LowerCh(Ch(s, 1)) ELSE UpperCh(Ch(s, 1)))
            \o TitleFrom(SubSeq(s, 2, Len(s)), IsLetter(Ch(s, 1)))

\* str.title()
title(s) == TitleFrom(s, FALSE)

RECURSIVE Remove(_, _)
\* s.replace(old, "")
Remove(s, old) ==
    IF Len(s) < Len(old) THEN s
    ELSE IF StartsAt(s, old, 1) THEN Remove(SubSeq(s, Len(old) + 1, Len(s)), old)
    ELSE Ch(s, 1) \o Remove(SubSeq(s, 2, Len(s)), old)

\* s.split()[0] of a text s that holds a word.
FirstWord(s) ==
    Bind(SkipSpace(s, 1),
         LAMBDA i : SubSeq(s, i, (CHOOSE j \in i..Len(s) :
                                    /\ \A k \in i..j : ~IsSpace(Ch(s, k))
                                    /\ j = Len(s) \/ IsSpace(Ch(s, j + 1)))))

\* rem matches \s*(?:x(\d+))?$ under re.IGNORECASE.
AddTail(rem) ==
    \E j \in {SkipSpace(rem, 1)} :
        \/ j > Len(rem)
        \/ /\ LowerCh(Ch(rem, j)) = "x"
           /\ j < Len(rem)
           /\ SkipDigits(rem, j + 1) > Len(rem)

\* re.sub(r"\s*to cart$", "", name, flags=re.IGNORECASE)
DropToCart(name) ==
    IF Len(name) >= 7 /\ lower(SubSeq(name, Len(name) - 6, Len(name))) = "to cart"
    THEN SubSeq(name, 1, (CHOOSE e \in 0..(Len(name) - 7) :
                            /\ \A k \in (e + 1)..(Len(name) - 7) : IsSpace(Ch(name, k))
                            /\ e = 0 \/ ~IsSpace(Ch(name, e))))
    ELSE name

\* parse_add(text): the name (None when "add" and a blank are not found) and
\* the quantity.  The match starts at the first "add" that a blank follows;
\* group 1 is lazy, so it is the shortest text that leaves \s*(?:x(\d+))?$.
parse_add(text) ==
    LET starts == {i \in 1..(Len(text) - 3) :
                      StartsAt(lower(text), "add", i) /\ IsSpace(Ch(text, i + 3))}
    IN  IF starts = {} THEN [name |-> None, qty |-> 1]
        ELSE Bind(SubSeq(text, SkipSpace(text, (CHOOSE i \in starts :
                                                   \A h \in starts : i <= h) + 3),
                         Len(text)),
                  LAMBDA rest :
                     Bind(CHOOSE p \in 0..Len(rest) :
                             /\ AddTail(SubSeq(rest, p + 1, Len(rest)))
                             /\ \A q \in 0..(p - 1) :
                                   ~AddTail(SubSeq(rest, q + 1, Len(rest))),
                          LAMBDA p :
                             [name |-> Some(title(strip(DropToCart(SubSeq(rest, 1, p))))),
                              qty |-> Bind(SkipSpace(rest, p + 1),
                                           LAMBDA j :
                                              IF j > Len(rest) THEN 1
                                              ELSE ParseInt(SubSeq(rest, j + 1,
                                                                   Len(rest))))]))

\* A price of the cart is a float: Some(cents), or NaN.
NaN == None

\* The price the Cart Reminder gives to the product name: the price of the
\* first row whose item holds the first word of name, 20.0 when there is none
\* or the catalog lacks the item or the price column.
PriceGuess(cat, name) ==
    IF cat.item_col = None \/ cat.price_col = None THEN Some(2000)
    ELSE Bind(SelectSeq(cat.rows,
                        LAMBDA r : ContainsNoCase(r[cat.item_col[1]], FirstWord(name))),
              LAMBDA cand :
                 IF cand = << >> THEN Some(2000)
                 ELSE IF cand[1][cat.price_col[1]] = None THEN NaN
                 ELSE cand[1][cat.price_col[1]])

MaxNotes == 1

\* The Cart Reminder screen on one input.
CartAction(user_action) ==
    /\ user_action # ""
    /\ \E txt \in {strip(lower(user_action))} :
          IF StartsAt(txt, "add", 1)
          THEN \E added \in {parse_add(user_action)} :
                  /\ TruthyStr(added.name) => Len(cart) < MaxCart
                  /\ cart' = IF TruthyStr(added.name)
                             THEN Append(cart, [name |-> added.name[1], qty |-> added.qty,
                                                price |-> PriceGuess(catalog,
                                                                     added.name[1])])
                             ELSE cart
                  /\ UNCHANGED <<applied_coupon, reminders>>
          ELSE IF Contains(txt, "show") /\ Contains(txt, "cart")
          THEN UNCHANGED <<cart, applied_coupon, reminders>>
          ELSE IF Contains(txt, "remind")
          THEN /\ Len(reminders) < MaxNotes
               /\ reminders' = Append(reminders, "Checkout your cart later today")
               /\ UNCHANGED <<cart, applied_coupon>>
          ELSE IF Contains(txt, "clear") /\ Contains(txt, "cart")
          THEN /\ cart' = << >>
               /\ applied_coupon' = None
               /\ UNCHANGED reminders
          ELSE UNCHANGED <<cart, applied_coupon, reminders>>
    /\ UNCHANGED <<catalog, context, prev_context, user_input, bot_reply, search_call,
                   conversation, compare_history, preferences, alerts, reviews, orders,
                   probe>>

\* re.search(r"size\s+([a-z0-9]+)", text): group 1, None without a match.
SizeOf(text) ==
    LET IsAlnum(c) == c \in LowerSet \/ c \in DigitSet
        starts == {i \in 1..Len(text) :
                      /\ StartsAt(text, "size", i)
                      /\ i + 4 <= Len(text) /\ IsSpace(Ch(text, i + 4))
                      /\ SkipSpace(text, i + 4) <= Len(text)
                      /\ IsAlnum(Ch(text, SkipSpace(text, i + 4)))}
    IN  IF starts = {} THEN None
        ELSE Bind(SkipSpace(text, (CHOOSE i \in starts : \A h \in starts : i <= h) + 4),
                  LAMBDA j : Some(SubSeq(text, j,
                                         (CHOOSE e \in j..Len(text) :
                                             /\ \A k \in j..e : IsAlnum(Ch(text, k))
                                             /\ e = Len(text)
                                                   \/ ~IsAlnum(Ch(text, e + 1))))))

\* The dict d with d[key] = value.
Put(d, key, value) ==
    [k \in DOMAIN d \cup {key} |-> IF k = key THEN value ELSE d[k]]

\* The Back-in-Stock Alerts screen on one input.
AlertInput(q) ==
    /\ q # ""
    /\ \E m \in {SizeOf(lower(q))},
          item_name \in {title(strip(Remove(Remove(q, "notify me when"), "is back")))} :
          alerts' = Put(alerts, item_name,
                        [size |-> IF m # None THEN Some(upper(m[1])) ELSE None])
    /\ UNCHANGED <<catalog, context, prev_context, user_input, bot_reply, search_call,
                   conversation, compare_history, preferences, cart, applied_coupon,
                   reminders, reviews, orders, probe>>

\* Product Reviews, Add Review, Submit Review.
SubmitReview(item_name, rating, text) ==
    /\ \E key \in {title(strip(item_name))} :
          IF strip(item_name) = "" THEN UNCHANGED reviews
          ELSE \E old \in {IF key \in DOMAIN reviews THEN reviews[key] ELSE << >>} :
                  /\ Len(old) < MaxNotes
                  /\ reviews' = Put(reviews, key,
                                    Append(old, [rating |-> rating, text |-> text]))
    /\ UNCHANGED <<catalog, context, prev_context, user_input, bot_reply, search_call,
                   conversation, compare_history, preferences, cart, applied_coupon,
                   reminders, alerts, orders, probe>>

(***************************************************************************)
(* A session in which every screen that writes session state is used, with *)
(* one input or a few for each, and then cleared.                          *)
(***************************************************************************)
CartTexts == {"Add blue jeans x2", "Show cart", "Remind me later", "Clear cart",
              "address", "hello"}

AlertTexts == {"Notify me when Blue Jeans size M is back"}

ReviewInputs == {<<"blue jeans", 5, "great fit">>, <<"  ", 3, "">>}

ClearNext ==
    \/ ChatTurn("hi")
    \/ Reorder(1, 1)
    \/ ApplyCode("SAVE15")
    \/ Recommend("I love blue tops")
    \/ CompareInput("blue jeans vs red dress")
    \/ \E user_action \in CartTexts : CartAction(user_action)
    \/ \E q \in AlertTexts : AlertInput(q)
    \/ \E r \in ReviewInputs : SubmitReview(r[1], r[2], r[3])
    \/ ClearNow

ClearSpec == Init /\ [][ClearNext]_vars

(***************************************************************************)
(* The cart and its coupon: cart_total, Checkout Inside Chat and the Track *)
(* Orders screen, which creates the entry "orders".  An amount of money is *)
(* a float: Some(cents), or NaN.  The catalog is the built-in table or a   *)
(* table of one row, priced or not, with or without its price column.      *)
(***************************************************************************)
RECURSIVE Subtotal(_)
\* sum(i["qty"] * i["price"] for i in items): NaN once a price is NaN.
Subtotal(items) ==
    IF items = << >> THEN Some(0)
    ELSE Bind(Subtotal(Tail(items)),
              LAMBDA rest : IF rest = NaN \/ Head(items).price = NaN THEN NaN
                            ELSE Some(Head(items).qty * Head(items).price[1] + rest[1]))

\* round(n / d, 2) in dollars, n / d in cents: the nearest cent.  A quotient
\* half way between two cents is a binary float on one side of the half or
\* the other, and goes to either.
Round2(n, d) ==
    IF 2 * (n % d) < d THEN {Some(n \div d)}
    ELSE IF 2 * (n % d) > d THEN {Some(n \div d + 1)}
    ELSE {Some(n \div d), Some(n \div d + 1)}

\* cart_total whose flat coupon takes its value off the total as it is.
cart_total_NoFloor(items, coup) ==
    Bind(Subtotal(items),
         LAMBDA total :
            IF coup = None \/ coup[1] = "" THEN {total}
            ELSE IF coupons[coup[1]].type = "percent"
            THEN IF total = NaN THEN {NaN}
                 ELSE Round2(total[1] * (100 - coupons[coup[1]].value), 100)
            ELSE IF total = NaN THEN {NaN}
            ELSE {Some(total[1] - 100 * coupons[coup[1]].value)})

\* cart_total() on the cart items and the applied coupon coup: the amounts
\* the call may return.  max(0.0, nan) is 0.0, its first argument.
cart_total(items, coup) ==
    Bind(Subtotal(items),
         LAMBDA total :
            IF coup = None \/ coup[1] = "" THEN {total}
            ELSE IF coupons[coup[1]].type = "percent"
            THEN IF total = NaN THEN {NaN}
                 ELSE Round2(total[1] * (100 - coupons[coup[1]].value), 100)
            ELSE IF total = NaN \/ total[1] - 100 * coupons[coup[1]].value < 0
            THEN {Some(0)}
            ELSE {Some(total[1] - 100 * coupons[coup[1]].value)})

\* The orders the Track Orders screen starts from.
InitialOrders ==
    << [id |-> "2045", item |-> "Red Handbag", status |-> "Out for Delivery",
        eta |-> "Today by 6 PM"],
       [id |-> "2356", item |-> "Blue Jeans", status |-> "Delivered",
        eta |-> "Delivered on Oct 22"],
       [id |-> "2789", item |-> "Black Sneakers", status |-> "Processing",
        eta |-> "Expected in 2 days"] >>

\* The Track Orders screen: it creates the entry "orders" when the session
\* state has none; a query changes nothing.
TrackOrders ==
    /\ orders' = IF orders = None THEN Some(InitialOrders) ELSE orders
    /\ UNCHANGED <<catalog, context, prev_context, user_input, bot_reply, search_call,
                   conversation, compare_history, preferences, cart, applied_coupon,
                   reminders, alerts, reviews, probe>>

MaxOrders == 4

\* Confirm & Pay that empties the cart and keeps the applied coupon.
Checkout_KeepsCoupon(name, address) ==
    /\ cart # << >>
    /\ \E old \in {IF orders = None THEN << >> ELSE orders[1]} :
          IF name = "" \/ address = "" THEN UNCHANGED <<cart, applied_coupon, orders>>
          ELSE /\ Len(old) < MaxOrders
               /\ orders' = Some(Append(old, [id |-> IntStr(3000 + Len(old) + 1),
                                              item |-> IntStr(Len(cart)) \o " items",
                                              status |-> "Processing",
                                              eta |-> "3-5 business days"]))
               /\ cart' = << >>
               /\ UNCHANGED applied_coupon
    /\ UNCHANGED <<catalog, context, prev_context, user_input, bot_reply, search_call,
                   conversation, compare_history, preferences, reminders, alerts,
                   reviews, probe>>

\* Checkout Inside Chat, Confirm & Pay: the form is shown only for a cart
\* that is not empty.
Checkout(name, address) ==
    /\ cart # << >>
    /\ \E old \in {IF orders = None THEN << >> ELSE orders[1]} :
          IF name = "" \/ address = "" THEN UNCHANGED <<cart, applied_coupon, orders>>
          ELSE /\ Len(old) < MaxOrders
               /\ orders' = Some(Append(old, [id |-> IntStr(3000 + Len(old) + 1),
                                              item |-> IntStr(Len(cart)) \o " items",
                                              status |-> "Processing",
                                              eta |-> "3-5 business days"]))
               /\ cart' = << >>
               /\ applied_coupon' = None
    /\ UNCHANGED <<catalog, context, prev_context, user_input, bot_reply, search_call,
                   conversation, compare_history, preferences, reminders, alerts,
                   reviews, probe>>

\* Tables of one row: a product without a price and a product whose name
\* is one word, under all the columns or without the price column.
CartCatalogs ==
    {BuiltIn} \cup
    { Catalog(columns, << Project(row, columns) >>) :
         columns \in {df_columns, Without(df_columns, {"price usd"})},
         row \in {Unpriced(Row("Red Dress", "Dresses", "Red", 0, "Calgary", "Elegance")),
                  Row("Jeans", "Bottoms", "black", 4999, "Kamloops", "DenimCo")} }

CartInit == /\ catalog \in CartCatalogs
            /\ context = InitContext
            /\ prev_context = InitContext
            /\ user_input = None
            /\ bot_reply = None
            /\ search_call = None
            /\ InitSession
            /\ probe = None

CartAddTexts == {"Add blue jeans x2", "add red dress to cart", "Add socks x0",
                 "Show cart", "Clear cart"}

AllCouponCodes == {"welcome10", " save15 ", "FLAT5", "SAVE20", ""}

CheckoutForms == {<<"Ada", "1 Main St">>, <<"", "1 Main St">>, <<"Ada", "">>}

CartNext ==
    \/ \E user_action \in CartAddTexts : CartAction(user_action)
    \/ \E qty \in Quantities : Reorder(3, qty)
    \/ \E code \in AllCouponCodes : ApplyCode(code)
    \/ \E form \in CheckoutForms : Checkout(form[1], form[2])
    \/ TrackOrders
    \/ ClearNow

CartSpec == CartInit /\ [][CartNext]_vars

(***************************************************************************)
(* The budget grammar of extract_filters on its own: texts of one or two   *)
(* clauses, each a direction keyword, a gap and a number or none, and a    *)
(* few texts outside this shape.  probe records the one call made.         *)
(***************************************************************************)
KeywordParts == {"under", "less", "below", "over", "above", "more than",
                 "greater than", "greater"}

GapParts == {"", " ", "$", " $ ", " than "}

NumberParts == {"", "7", "50"}

Clauses == {k \o g \o n : k \in KeywordParts, g \in GapParts, n \in NumberParts}

BudgetTexts ==
    {a \o " " \o b : a \in Clauses, b \in Clauses \cup {""}}
        \cup {"", "hi", "jeans 50", "UNDER $50", "Over 007", "thunder 30", "under 50.99",
              "below\t$\n20", "under $$5 over 9", "moreover 12 less 3"}

ExtractInit == /\ catalog = BuiltIn
               /\ context = InitContext
               /\ prev_context = InitContext
               /\ user_input = None
               /\ bot_reply = None
               /\ search_call = None
               /\ InitSession
               /\ probe = None

\* One call extract_filters(text), of which the budget and the direction are
\* recorded, with the result of the budget gate of generate_reply on the text.
ExtractCall(text) ==
    /\ probe = None
    /\ \E b \in {ExtractBudget(lower(text))} :
          probe' = Some([op |-> "extract_filters", text |-> text,
                         budget |-> b.budget, price_type |-> b.price_type,
                         gate |-> BudgetGate(lower(text))])
    /\ UNCHANGED <<catalog, context, prev_context, user_input, bot_reply, search_call,
                   conversation, features>>

ExtractNext == \E text \in BudgetTexts : ExtractCall(text)

ExtractSpec == ExtractInit /\ [][ExtractNext]_vars

(***************************************************************************)
(* find_product on its own, on the catalogs of the product matcher.  probe *)
(* records the one call made.                                              *)
(***************************************************************************)
ProductTexts == {"", "jeans", "blue jeans", "Black Jeans", "black jeens", "jacket",
                 "red dress", "blue dress", "jeans jacket in blue", "sneakers"}

\* One call find_product(text).
FindCall(text) ==
    /\ probe = None
    /\ probe' = Some([op |-> "find_product", text |-> text,
                      result |-> find_product(catalog, text)])
    /\ UNCHANGED <<catalog, context, prev_context, user_input, bot_reply, search_call,
                   conversation, features>>

FindNext == \E text \in ProductTexts : FindCall(text)

FindSpec == SearchInit /\ [][FindNext]_vars

(***************************************************************************)
(* Properties.  Each is a state predicate on the last turn: prev_context   *)
(* is the context the turn started from, user_input its utterance, context *)
(* the context it left.                                                    *)
(***************************************************************************)
\* The last step of the behaviour was a user turn.
Turn == user_input # None

\* What generate_reply computed from the utterance of the last turn.
Last == parsed[user_input[1]]

Slots == {"item", "color", "budget", "price_type"}

SameSlots(S) == \A k \in S : context[k] = prev_context[k]

StopPhrases == {"no", "stop", "thanks", "thank you", "bye", "ok", "okay", "cancel"}

\* The utterance u holds the phrase w as whole words, whatever the case.
WordMatch(u, w) ==
    \E i \in 1..Len(u) :
        /\ StartsAt(lower(u), w, i)
        /\ (i = 1 \/ ~IsWordChar(Ch(u, i - 1)))
        /\ (i + Len(w) > Len(u) \/ ~IsWordChar(Ch(u, i + Len(w))))

Farewell == "Alright Have a wonderful shopping day!"

C2_ShortCircuitFrame ==
    (Turn /\ ~Last.stop /\ Last.gate)
        => /\ context.step = prev_context.step
           /\ SameSlots({"item", "color"})
           /\ context.budget = Last.filters.budget
           /\ context.price_type = Last.filters.price_type
           /\ search_call # None
           /\ search_call[1].item = prev_context.item
           /\ search_call[1].color = prev_context.color
           /\ search_call[1].budget = Last.filters.budget
           /\ search_call[1].price_type = Last.filters.price_type

\* A budget utterance that names another item, in step ask_color, over a stored
\* item and a stored budget that it replaces.
C2_Witness ==
    /\ Turn /\ ~Last.stop /\ Last.gate
    /\ prev_context.step = "ask_color"
    /\ prev_context.item # None
    /\ Last.filters.item # None
    /\ Last.filters.item # prev_context.item
    /\ prev_context.budget # None
    /\ prev_context.budget # context.budget

\* C3: every non-cancellation utterance in which extract_filters finds a budget
\* and a direction passes the budget gate, so that the turn searches and leaves
\* the step where it was.
C3_GateAcceptsGrammar ==
    (Turn /\ ~Last.stop /\ Last.filters.budget # None /\ Last.filters.price_type # None)
        => /\ Last.gate
           /\ search_call # None
           /\ context.step = prev_context.step

\* C4: a turn that is no cancellation never sets a slot that held a value back
\* to null.
C4_SlotsNeverNulled ==
    (Turn /\ ~Last.stop)
        => \A k \in Slots : prev_context[k] # None => context[k] # None

\* The utterance of the last turn contains the name of a catalog item.
NamesCatalogItem == \E k \in 1..Len(lower_items) : Contains(Last.text, lower_items[k])

\* C5: from greet with all slots null, a non-cancellation utterance that names
\* a catalog item together with a budget makes the turn search for that item
\* with the extracted budget and direction, so that every row returned is a row
\* of that item.
C5_OneShotSearchesItem ==
    (Turn /\ prev_context = InitContext /\ ~Last.stop /\ NamesCatalogItem
          /\ Last.filters.budget # None)
        => /\ search_call # None
           /\ search_call[1].item = Last.filters.item
           /\ search_call[1].budget = Last.filters.budget
           /\ search_call[1].price_type = Last.filters.price_type
           /\ \A k \in 1..Len(search_call[1].results) :
                 ContainsNoCase(search_call[1].results[k][item_col[1]],
                                Last.filters.item[1])

\* C6: in step ask_item a non-cancellation utterance that does not pass the
\* budget gate stores the item and the color extract_filters returns for it,
\* moves to ask_color, leaves budget and direction alone, searches nothing and
\* is answered with the question for a color preference.
C6_AskItemStores ==
    (Turn /\ prev_context.step = "ask_item" /\ ~Last.stop /\ ~Last.gate)
        => /\ context.item = Last.filters.item
           /\ context.color = Last.filters.color
           /\ context.step = "ask_color"
           /\ SameSlots({"budget", "price_type"})
           /\ search_call = None
           /\ StartsAt(bot_reply[1], "Nice choice! Do you have a color preference for your ", 1)

\* "red dress" in step ask_item, with a budget already stored.
C6_Witness ==
    /\ Turn
    /\ prev_context.step = "ask_item"
    /\ user_input = Some("red dress")
    /\ context.item = Some("red dress")
    /\ context.color = Some("red")
    /\ context.step = "ask_color"
    /\ context.budget # None

\* C7: in step ask_color a non-cancellation utterance that does not pass the
\* budget gate replaces the color when extract_filters finds one and keeps the
\* stored color when it finds none, leaves item, budget and direction alone
\* whatever item the utterance names, and moves to ask_budget.
C7_AskColorFrame ==
    (Turn /\ prev_context.step = "ask_color" /\ ~Last.stop /\ ~Last.gate)
        => /\ Last.filters.color # None => context.color = Last.filters.color
           /\ Last.filters.color = None => context.color = prev_context.color
           /\ SameSlots({"item", "budget", "price_type"})
           /\ context.step = "ask_budget"

\* An utterance in step ask_color that names another item and another color
\* than the stored ones.
C7_Witness ==
    /\ Turn /\ ~Last.stop /\ ~Last.gate
    /\ prev_context.step = "ask_color"
    /\ prev_context.item # None
    /\ Last.filters.item # None
    /\ Last.filters.item # prev_context.item
    /\ prev_context.color # None
    /\ Last.filters.color # None
    /\ Last.filters.color # prev_context.color
    /\ context.color = Last.filters.color

\* C8: a turn in step ask_budget that is no cancellation stays in ask_budget,
\* whatever its search returns, and searches with the stored item and color.
C8_AskBudgetStays ==
    (Turn /\ prev_context.step = "ask_budget" /\ ~Last.stop)
        => /\ context.step = "ask_budget"
           /\ SameSlots({"item", "color"})
           /\ search_call # None
           /\ search_call[1].item = prev_context.item
           /\ search_call[1].color = prev_context.color

\* A turn in ask_budget whose search, for a stored item, finds no row.
C8_Witness ==
    /\ Turn /\ ~Last.stop
    /\ prev_context.step = "ask_budget"
    /\ prev_context.item # None
    /\ search_call # None
    /\ search_call[1].results = None
    /\ context.step = "ask_budget"

\* C9: in step greet a non-cancellation utterance that does not pass the budget
\* gate moves to ask_item, leaves the four slots alone whatever the utterance
\* names, and searches nothing.
C9_GreetFrame ==
    (Turn /\ prev_context.step = "greet" /\ ~Last.stop /\ ~Last.gate)
        => /\ context.step = "ask_item"
           /\ SameSlots(Slots)
           /\ search_call = None

\* An utterance naming an item and a color in step greet, a budget being stored.
C9_Witness ==
    /\ Turn /\ ~Last.stop /\ ~Last.gate
    /\ prev_context.step = "greet"
    /\ Last.filters.item # None
    /\ Last.filters.color # None
    /\ prev_context.budget # None
    /\ context.step = "ask_item"

StepOrder == <<"greet", "ask_item", "ask_color", "ask_budget">>

StepIndex(step) == CHOOSE k \in 1..Len(StepOrder) : StepOrder[k] = step

\* C10: a turn leaves the step where it is or moves it to the next one of
\* greet, ask_item, ask_color, ask_budget, a step-driven turn by exactly one
\* position until ask_budget; the step comes back to greet by a cancellation or
\* a session clear alone.
C10_StepOrder ==
    /\ \E k \in 1..Len(StepOrder) : StepOrder[k] = context.step
    /\ (Turn /\ ~Last.stop /\ Last.gate) => context.step = prev_context.step
    /\ (Turn /\ ~Last.stop /\ ~Last.gate)
          => StepIndex(context.step) =
                IF prev_context.step = "ask_budget" THEN 4
                ELSE StepIndex(prev_context.step) + 1
    /\ (context.step = "greet" /\ prev_context.step # "greet") => (~Turn \/ Last.stop)

\* A step-driven turn from ask_color to ask_budget.
C10_Witness ==
    /\ Turn /\ ~Last.stop /\ ~Last.gate
    /\ prev_context.step = "ask_color"
    /\ context.step = "ask_budget"

\* C14: when a turn made in step ask_budget with an utterance that carries no
\* budget and no item is followed by a turn with the same utterance, the
\* second turn runs the same search with the same result and leaves the
\* context as the first turn left it.
C14_RepeatIsNoOp ==
    [][(/\ Turn
        /\ prev_context.step = "ask_budget"
        /\ Last.filters.budget = None
        /\ Last.filters.item = None
        /\ user_input' = user_input)
          => /\ context' = context
             /\ search_call' = search_call]_vars

\* A turn in step ask_budget with such an utterance, no cancellation, an item
\* and a color being stored and no budget: it searched, found rows and left
\* the context as it was, as the second of two such turns does.
C14_Witness ==
    /\ Turn /\ ~Last.stop
    /\ prev_context.step = "ask_budget"
    /\ Last.filters.budget = None
    /\ Last.filters.item = None
    /\ prev_context.item # None
    /\ prev_context.color # None
    /\ prev_context.budget = None
    /\ context = prev_context
    /\ search_call # None
    /\ search_call[1].results # None

(***************************************************************************)
(* Properties of the chat loop.                                            *)
(***************************************************************************)
\* The transcript holds the turns in order: "You" and "Bot" alternate from
\* "You", and the last two entries are the utterance and the reply of the last
\* turn.
WellFormedTranscript ==
    /\ Len(conversation) % 2 = 0
    /\ \A k \in 1..Len(conversation) :
          conversation[k][1] = IF k % 2 = 1 THEN "You" ELSE "Bot"
    /\ Turn => /\ Len(conversation) >= 2
               /\ conversation[Len(conversation) - 1] = <<"You", user_input[1]>>
               /\ conversation[Len(conversation)] = <<"Bot", bot_reply[1]>>

\* The last turn ran generate_reply once on the context it started from.
CalledOnce ==
    Turn => /\ context = generate_reply(prev_context, user_input[1]).context
            /\ bot_reply = Some(generate_reply(prev_context, user_input[1]).reply)

\* A step empties the transcript, leaves it alone, or appends two entries.
TwoAppended ==
    \/ conversation' = << >>
    \/ conversation' = conversation
    \/ /\ Len(conversation') = Len(conversation) + 2
       /\ SubSeq(conversation', 1, Len(conversation)) = conversation

\* C16: each user turn calls generate_reply once and appends to the transcript
\* the utterance as (You, utterance) and then the reply as (Bot, reply), the
\* earlier entries staying as they are; so the transcript always has an even
\* length and alternates You and Bot from You.
C16_Transcript ==
    /\ [](WellFormedTranscript /\ CalledOnce)
    /\ [][TwoAppended]_vars

\* A transcript of two turns, the second of which moved the step on.
C16_Witness ==
    /\ Turn
    /\ Len(conversation) = 4
    /\ conversation[1] = <<"You", "hi">>
    /\ conversation[3] = <<"You", "red dress">>
    /\ conversation[4][1] = "Bot"
    /\ prev_context.step = "ask_item"
    /\ context.step = "ask_color"

(***************************************************************************)
(* Properties of the product matcher, on the call search_call records.     *)
(***************************************************************************)
Called == search_call # None

Args == search_call[1]

Results == search_call[1].results

\* The price of a row of the catalog, None when it has none.
PriceOf(r) == r[catalog.price_col[1]]

\* The row r passes every filter the call sets: the item and the color as
\* case-insensitive substrings, the budget in the direction given.
PassesFilters(r) ==
    /\ (Args.item # None /\ catalog.item_col # None)
          => Contains(lower(r[catalog.item_col[1]]), lower(Args.item[1]))
    /\ (Args.color # None /\ catalog.color_col # None)
          => Contains(lower(r[catalog.color_col[1]]), lower(Args.color[1]))
    /\ (Args.budget # None /\ Args.price_type = Some("less"))
          => PriceOf(r) # None /\ PriceOf(r)[1] <= 100 * Args.budget[1]
    /\ (Args.budget # None /\ Args.price_type = Some("more"))
          => PriceOf(r) # None /\ PriceOf(r)[1] >= 100 * Args.budget[1]

\* The rows of the catalog that have a price and pass the filters.
Matching ==
    {catalog.rows[k] : k \in {j \in 1..Len(catalog.rows) :
                                 /\ PriceOf(catalog.rows[j]) # None
                                 /\ PassesFilters(catalog.rows[j])}}

Returned == {Results[k] : k \in 1..Len(Results)}

Min(a, b) == IF a < b THEN a ELSE b

\* C11: on a catalog with a price column, search_products returns no match
\* exactly when no row with a price passes all the filters set; otherwise it
\* returns at most three rows, each with a price and passing every filter, in
\* ascending order of price, none dearer than a matching row left out; with
\* no argument set these are the three cheapest priced rows of the catalog.
C11_SearchContract ==
    (Called /\ catalog.price_col # None)
        => /\ Results = None <=> Matching = {}
           /\ Len(Results) = Min(Head3, Cardinality(Matching))
           /\ Cardinality(Returned) = Len(Results)
           /\ Returned \subseteq Matching
           /\ \A i, j \in 1..Len(Results) :
                 i < j => PriceOf(Results[i])[1] <= PriceOf(Results[j])[1]
           /\ \A r \in Returned : \A m \in Matching \ Returned :
                 PriceOf(r)[1] <= PriceOf(m)[1]
           /\ (Args.item = None /\ Args.color = None /\ Args.budget = None
                  /\ Args.price_type = None)
                 => Matching = {catalog.rows[k] : k \in {j \in 1..Len(catalog.rows) :
                                                   PriceOf(catalog.rows[j]) # None}}

\* A search for an item that four priced rows match: three come back, the
\* first row of the catalog last.
C11_Witness ==
    /\ Called /\ catalog.price_col # None
    /\ Args.item = Some("jeans")
    /\ Cardinality(Matching) = 4
    /\ Len(Results) = 3
    /\ Results[3] = catalog.rows[1]

\* What the call can return with the direction "more".
MoreOutcomes ==
    SearchOutcomes(catalog, Args.item, Args.color, Args.budget, Some("more"))

RowsOf(seq) == {seq[k] : k \in 1..Len(seq)}

\* The priced rows that pass the item and color filters of the call.
Candidates ==
    {catalog.rows[k] : k \in {j \in 1..Len(catalog.rows) :
          /\ PriceOf(catalog.rows[j]) # None
          /\ (Args.item # None /\ catalog.item_col # None)
                => Contains(lower(catalog.rows[j][catalog.item_col[1]]),
                            lower(Args.item[1]))
          /\ (Args.color # None /\ catalog.color_col # None)
                => Contains(lower(catalog.rows[j][catalog.color_col[1]]),
                            lower(Args.color[1]))}}

\* C12: for the same item, color and budget B, the search with direction less
\* returns only rows priced at most B and the search with direction more only
\* rows priced at least B, so a row returned by both is priced exactly B; and
\* a row priced exactly B is kept by both: each search returns it unless it
\* returns three rows.
C12_BothInclusive ==
    (Called /\ catalog.price_col # None /\ Args.budget # None
            /\ Args.price_type = Some("less"))
        => /\ \A r \in Returned : PriceOf(r)[1] <= 100 * Args.budget[1]
           /\ \A more \in MoreOutcomes :
                 /\ \A r \in RowsOf(more) : PriceOf(r)[1] >= 100 * Args.budget[1]
                 /\ \A r \in Returned \cap RowsOf(more) :
                       PriceOf(r)[1] = 100 * Args.budget[1]
                 /\ \A r \in Candidates :
                       PriceOf(r)[1] = 100 * Args.budget[1]
                          => /\ r \in Returned \/ Len(Results) = Head3
                             /\ r \in RowsOf(more) \/ Len(more) = Head3

\* A budget of 50 on a catalog with a row at 50.00, a cheaper and a dearer one:
\* the row at 50.00 comes back in both directions, the others in one each.
C12_Witness ==
    /\ Called /\ catalog.price_col # None
    /\ Args.budget = Some(50) /\ Args.price_type = Some("less")
    /\ \E more \in MoreOutcomes :
          /\ \E r \in Returned \cap RowsOf(more) : PriceOf(r)[1] = 5000
          /\ \E r \in Returned \ RowsOf(more) : PriceOf(r)[1] = 4999
          /\ \E r \in RowsOf(more) \ Returned : PriceOf(r)[1] = 7999

(***************************************************************************)
(* Column detection on its own: the script loads a table whose header is a *)
(* sequence of at most MaxColumns names.  probe records the one load made. *)
(***************************************************************************)
MaxColumns == 3

HeaderPool == {"Item Purchased", "Item ID ", " Purchase Amount (USD)", "Price", "Color",
               "Size", "Company", "In Stock", "Location"}

Headers == UNION {[1..n -> HeaderPool] : n \in 0..MaxColumns}

\* The script start on a table with the header headers.
DetectCall(headers) ==
    /\ probe = None
    /\ \E columns \in {NormalizeColumns(headers)} :
          probe' = Some([op |-> "detect", headers |-> headers, columns |-> columns,
                         roles |-> ColumnRoles(columns)])
    /\ UNCHANGED <<catalog, context, prev_context, user_input, bot_reply, search_call,
                   conversation, features>>

DetectNext == \E headers \in Headers : DetectCall(headers)

DetectSpec == Init /\ [][DetectNext]_vars

(***************************************************************************)
(* The Compare Products screen on its own, on the catalogs of the product  *)
(* matcher.                                                                *)
(***************************************************************************)
CompareTexts == {"blue jeans vs black jeans", "jeans and red dress",
                 "Blue Jeans  VS  jacket vs dress", "blue jeans"}

\* The catalogs of the product matcher that leave a row of the pool out.
CompareInit ==
    /\ catalog \in {cat \in Catalogs : Len(cat.rows) < MaxRows}
    /\ context = InitContext
    /\ prev_context = InitContext
    /\ user_input = None
    /\ bot_reply = None
    /\ search_call = None
    /\ InitSession
    /\ probe = None

CompareNext == \E text \in CompareTexts : CompareInput(text)

CompareSpec == CompareInit /\ [][CompareNext]_vars

(***************************************************************************)
(* Properties of find_product, on the call probe records.                  *)
(***************************************************************************)
Found == probe # None /\ probe[1].op = "find_product"

\* The item and the color find_product resolves from the text of the call.
ResolvedItem == ResolveItem(catalog, lower(probe[1].text))

ResolvedColor == ResolveColor(catalog, lower(probe[1].text))

\* The indices of the rows whose item contains item and whose color contains
\* color, when there is one.
QualifyingFor(item, color) ==
    {k \in 1..Len(catalog.rows) :
        /\ Contains(lower(catalog.rows[k][catalog.item_col[1]]), lower(item[1]))
        /\ color # None
              => Contains(lower(catalog.rows[k][catalog.color_col[1]]), lower(color[1]))}

Qualifying == QualifyingFor(ResolvedItem, ResolvedColor)

\* C19: find_product returns the first row, in catalog order, whose item
\* contains the resolved item and whose color contains the resolved color when
\* the text resolves one; it returns nothing when no item resolves or no row
\* has both; so a row it returns always has the resolved color.
C19_FirstQualifyingRow ==
    Found =>
        LET item == ResolvedItem
            color == ResolvedColor
            rows == IF item = None THEN {} ELSE QualifyingFor(item, color)
        IN  IF rows = {} THEN probe[1].result = None
            ELSE /\ probe[1].result
                       = Some(catalog.rows[CHOOSE k \in rows : \A h \in rows : k <= h])
                 /\ color # None
                       => Contains(lower(probe[1].result[1][catalog.color_col[1]]),
                                   lower(color[1]))

\* A text whose item is in the first row of the catalog in another color: the
\* row returned is a later one, of the color the text names.
C19_Witness ==
    /\ Found
    /\ probe[1].text = "blue jeans"
    /\ ResolvedItem = Some("Jeans")
    /\ ResolvedColor = Some("Blue")
    /\ Len(catalog.rows) >= 2
    /\ catalog.rows[1]["item purchased"] = "Jeans"
    /\ probe[1].result # None
    /\ probe[1].result[1]["item purchased"] = "Blue Jeans"

(***************************************************************************)
(* Properties of the budget grammar, on the call probe records.            *)
(***************************************************************************)
Extracted == probe # None /\ probe[1].op = "extract_filters"

LessWords == {"under", "less", "below"}

MoreWords == {"more than", "above", "over", "greater than", "greater"}

\* A phrase of words starts at index i of t and its integer at index d: one of
\* the words at i, then whitespace with at most one "$" in it, then a digit.
PhraseAt(t, words, i, d) ==
    \E w \in words :
        /\ StartsAt(t, w, i)
        /\ i + Len(w) <= d
        /\ d <= Len(t)
        /\ IsDigit(Ch(t, d))
        /\ \A k \in (i + Len(w))..(d - 1) : IsSpace(Ch(t, k)) \/ Ch(t, k) = "$"
        /\ Cardinality({k \in (i + Len(w))..(d - 1) : Ch(t, k) = "$"}) <= 1

Phrases(t, words) ==
    {p \in (1..Len(t)) \X (1..Len(t)) : PhraseAt(t, words, p[1], p[2])}

\* The integer of the first phrase of words in t: its digits up to the first
\* character that is no digit.
FirstInteger(t, words) ==
    LET first == CHOOSE p \in Phrases(t, words) :
                    \A q \in Phrases(t, words) : p[1] <= q[1]
        end == CHOOSE e \in first[2]..Len(t) :
                    /\ \A k \in first[2]..e : IsDigit(Ch(t, k))
                    /\ e = Len(t) \/ ~IsDigit(Ch(t, e + 1))
    IN  ParseInt(SubSeq(t, first[2], end))

\* C13: extract_filters returns the direction less and the integer of the
\* first less-phrase whenever the text holds a less-phrase, wherever its
\* more-phrases are; the direction more and the integer of the first
\* more-phrase when it holds a more-phrase and no less-phrase; no budget and
\* no direction when it holds neither.
C13_LessFirst ==
    Extracted =>
        LET t == lower(probe[1].text)
        IN  IF Phrases(t, LessWords) # {}
            THEN /\ probe[1].price_type = Some("less")
                 /\ probe[1].budget = Some(FirstInteger(t, LessWords))
            ELSE IF Phrases(t, MoreWords) # {}
            THEN /\ probe[1].price_type = Some("more")
                 /\ probe[1].budget = Some(FirstInteger(t, MoreWords))
            ELSE /\ probe[1].price_type = None
                 /\ probe[1].budget = None

\* A text whose more-phrase comes before its less-phrase: the less-phrase wins.
C13_Witness ==
    /\ Extracted
    /\ probe[1].text = "over$50 under $ 7"
    /\ probe[1].price_type = Some("less")
    /\ probe[1].budget = Some(7)

(***************************************************************************)
(* Properties of the Compare Products screen, on the input probe records.  *)
(***************************************************************************)
Compared == probe # None /\ probe[1].op = "compare"

\* The parts of the recorded input.
Parts == Split(lower(probe[1].text))

\* Whether part k of the recorded input resolves to a row of the catalog.
Resolves(parts, k) == find_product(catalog, strip(parts[k])) # None

HistoryUnchanged == compare_history = probe[1].before

OneAppended ==
    /\ Len(compare_history) = Len(probe[1].before) + 1
    /\ SubSeq(compare_history, 1, Len(probe[1].before)) = probe[1].before

\* C17: a comparison input with two parts of which one or neither resolves to
\* a catalog row gets the check-spelling warning and leaves the comparison
\* history as it was; an input with fewer than two parts gets the format
\* guidance and leaves the history as it was; the history grows only when both
\* parts resolve, and then by exactly one comparison, that of the two resolved
\* products.
C17_CompareOutcomes ==
    Compared =>
        \E parts \in {Parts} :
            IF Len(parts) < 2
            THEN probe[1].outcome = "info" /\ HistoryUnchanged
            ELSE \E both \in {Resolves(parts, 1) /\ Resolves(parts, 2)} :
                    /\ ~both => probe[1].outcome = "warning" /\ HistoryUnchanged
                    /\ compare_history # probe[1].before =>
                          /\ both
                          /\ OneAppended
                          /\ \E e \in {compare_history[Len(compare_history)]} :
                                /\ e.p1 = find_product(catalog, strip(parts[1]))[1]
                                                [catalog.item_col[1]]
                                /\ e.p2 = find_product(catalog, strip(parts[2]))[1]
                                                [catalog.item_col[1]]
                    /\ both /\ catalog.item_col # None /\ catalog.color_col # None
                          => probe[1].outcome = "appended" /\ OneAppended

\* After one comparison was stored, "jeans and red dress" on a catalog that
\* has jeans but no red dress: the warning, and the history still holds the
\* one comparison.
C17_Witness ==
    /\ Compared
    /\ probe[1].text = "jeans and red dress"
    /\ Len(Parts) = 2
    /\ Resolves(Parts, 1)
    /\ ~Resolves(Parts, 2)
    /\ probe[1].outcome = "warning"
    /\ Len(probe[1].before) = 1
    /\ compare_history = probe[1].before

\* C18: no comparison raises an error, whichever column roles the catalog
\* resolves.
C18_CompareNeverRaises == Compared => probe[1].outcome # "KeyError"

(***************************************************************************)
(* Properties of respond_like_bot, on the call search_call records and the *)
(* reply it rendered.                                                      *)
(***************************************************************************)
Rendered == Called /\ Results # None /\ bot_reply # None

\* The budget and the direction are both set or both null, as extract_filters
\* returns them.
FromExtractor == (Args.budget = None) <=> (Args.price_type = None)

UnderIntro(reply, budget) == Contains(reply, " under $" \o IntStr(budget) \o "\n\n")

OverIntro(reply, budget) == Contains(reply, " over $" \o IntStr(budget) \o "\n\n")

GenericIntro(reply) == Contains(reply, " I think you'll love\n\n")

\* C20: for a match set that is not empty and a budget and direction as the
\* extractor returns them (budget 0 included), the intro of the rendered reply
\* follows the direction alone: "under $budget" for less, "over $budget" for
\* more, and the generic intro only when the direction is null.
C20_IntroFollowsDirection ==
    Rendered /\ FromExtractor =>
        /\ Args.price_type = Some("less") => UnderIntro(bot_reply[1], Args.budget[1])
        /\ Args.price_type = Some("more") => OverIntro(bot_reply[1], Args.budget[1])
        /\ GenericIntro(bot_reply[1]) => Args.price_type = None

(***************************************************************************)
(* The frame of generate_reply, on the turns of a session.                 *)
(***************************************************************************)
\* A step in which generate_reply ran: the transcript grew.
ReplyStep == Len(conversation') > Len(conversation)

\* C15: a turn of generate_reply, whichever branch it takes, leaves the
\* catalog (rows and column roles), the cart, the applied coupon, the
\* comparison history and the preferences as they were.
C15_ReplyFrame ==
    [][ReplyStep => /\ catalog' = catalog
                    /\ cart' = cart
                    /\ applied_coupon' = applied_coupon
                    /\ compare_history' = compare_history
                    /\ preferences' = preferences]_vars

\* Two turns were made, the second a search, in a session whose cart, coupon,
\* comparison history and preferences are all set.
C15_Witness ==
    /\ Len(conversation) = 4
    /\ search_call # None
    /\ cart # << >>
    /\ applied_coupon = Some("SAVE15")
    /\ Len(compare_history) = 1
    /\ preferences = [color |-> Some("blue"), category |-> Some("Tops")]

(***************************************************************************)
(* The order of rows of equal price, on the call search_call records.      *)
(***************************************************************************)
\* The place of the row r in the catalog.
RowIndex(r) == CHOOSE k \in 1..Len(catalog.rows) : catalog.rows[k] = r

\* C22: rows of equal price come back in their order in the catalog, and a
\* matching row that is left out for a returned row of the same price comes
\* after it in the catalog.
C22_TiesInCatalogOrder ==
    (Called /\ catalog.price_col # None)
        => /\ \A i, j \in 1..Len(Results) :
                 (i < j /\ PriceOf(Results[i]) = PriceOf(Results[j]))
                    => RowIndex(Results[i]) < RowIndex(Results[j])
           /\ \A r \in Returned : \A m \in Matching \ Returned :
                 PriceOf(r) = PriceOf(m) => RowIndex(r) < RowIndex(m)

(***************************************************************************)
(* The reply to a search that finds no row.                                *)
(***************************************************************************)
\* The last turn searched and no row came back.
NoMatch == Turn /\ search_call # None /\ search_call[1].results = None

\* C21: a search of generate_reply that finds no row, on the budget branch or
\* in step ask_budget, is answered with an apology that names the item
\* searched for, or "items" when the item slot is null.
C21_ApologyNamesItem ==
    NoMatch => Contains(bot_reply[1], OrElse(search_call[1].item, "items"))

(***************************************************************************)
(* Column roles, on the load probe records.                                *)
(***************************************************************************)
Detected == probe # None /\ probe[1].op = "detect"

\* The name of column k of the header as the script keeps it: lowercased and
\* trimmed.
ColumnName(k) == strip(lower(probe[1].headers[k]))

\* Column k matches the role: its name contains one of the role's keywords.
MatchesRole(k, role) == \E x \in RoleKeywords[role] : Contains(ColumnName(k), x)

\* C23: each role is the first column, in column order, whose lowercased and
\* trimmed name contains one of the role's keywords, and is unset when no
\* column matches; so a role that is set names a column of the table.
C23_FirstMatchingColumn ==
    Detected =>
        \A role \in {"item", "price", "color", "category", "size", "brand", "stock"} :
            \E r \in {probe[1].roles[role]} :
                /\ r = None <=> \A k \in 1..Len(probe[1].headers) : ~MatchesRole(k, role)
                /\ r # None =>
                      \E k \in 1..Len(probe[1].headers) :
                          /\ MatchesRole(k, role)
                          /\ \A j \in 1..(k - 1) : ~MatchesRole(j, role)
                          /\ r[1] = ColumnName(k)
                          /\ probe[1].columns[k] = r[1]

\* A header with two item columns and a price column named by "amount" and
\* "usd": the item role is the first of the two, the color role is unset.
C23_Witness ==
    /\ Detected
    /\ probe[1].headers = <<"Item ID ", " Purchase Amount (USD)", "Item Purchased">>
    /\ probe[1].roles.item = Some("item id")
    /\ probe[1].roles.price = Some("purchase amount (usd)")
    /\ probe[1].roles.color = None

(***************************************************************************)
(* The order of the checks of generate_reply.                              *)
(***************************************************************************)
\* The utterance of the last turn word-matches a stop phrase.
SaysStop == \E w \in StopPhrases : WordMatch(user_input[1], w)

StepPrompts ==
    {"Hey there! What are you shopping for today? (e.g., jeans, shoes, dresses)",
     "Great! What's your budget range? (e.g., under 100 or more than 150)"}

C28_GateImpliesBudget ==
    (Extracted /\ probe[1].gate)
        => probe[1].budget # None /\ probe[1].price_type # None

\* "greater than7 over$50": the gate passes on "over$50", and extract_filters
\* returns the 7 of "greater than7", which the gate does not accept.
C28_Witness ==
    /\ Extracted
    /\ probe[1].text = "greater than7 over$50"
    /\ probe[1].gate
    /\ probe[1].budget = Some(7)
    /\ probe[1].price_type = Some("more")

\* C25: the budget slot is null exactly when the direction slot is null.
C25_BudgetIffDirection == (context.budget = None) <=> (context.price_type = None)

\* A turn in step ask_budget that finds no budget in the utterance and sets
\* the stored budget and direction to null together.
C25_Witness ==
    /\ Turn /\ ~Last.stop
    /\ prev_context.budget # None /\ prev_context.price_type # None
    /\ context.budget = None /\ context.price_type = None

(***************************************************************************)
(* Invariants of the context.                                              *)
(***************************************************************************)
\* C26: in the steps greet and ask_item the item and the color slots are null.
C26_NoItemBeforeAskColor ==
    context.step \in {"greet", "ask_item"} => context.item = None /\ context.color = None

\* A cancellation in step ask_budget with an item and a color stored: the step
\* is greet again and both are null.
C26_Witness ==
    /\ Turn /\ Last.stop
    /\ prev_context.step = "ask_budget"
    /\ prev_context.item # None /\ prev_context.color # None
    /\ context.step = "greet"
    /\ context.item = None /\ context.color = None

\* C27: the step is always one of greet, ask_item, ask_color and ask_budget,
\* and no turn is answered by the fallback at the end of generate_reply: the
\* reply is never the request to clarify, and a turn that searches is a budget
\* turn or a turn of step ask_budget.
C27_FallbackUnreached ==
    /\ context.step \in {"greet", "ask_item", "ask_color", "ask_budget"}
    /\ Turn => /\ bot_reply # Some(Clarify)
               /\ prev_context.step \in {"greet", "ask_item", "ask_color", "ask_budget"}
               /\ search_call # None => Last.gate \/ prev_context.step = "ask_budget"

\* A turn of step ask_budget, the last branch before the fallback, with an
\* utterance that holds no item, no color and no budget.
C27_Witness ==
    /\ Turn /\ ~Last.stop /\ ~Last.gate
    /\ prev_context.step = "ask_budget"
    /\ Last.filters = [item |-> None, color |-> None, budget |-> None, price_type |-> None]
    /\ context.step = "ask_budget"
    /\ bot_reply # Some(Clarify)

\* C29: once the step is past ask_item, a turn that is no cancellation leaves
\* the item slot as it was, whatever item the utterance names, and a search it
\* runs is a search for that item.
C29_ItemFixed ==
    (Turn /\ ~Last.stop /\ prev_context.step \in {"ask_color", "ask_budget"})
        => /\ context.item = prev_context.item
           /\ search_call # None => search_call[1].item = prev_context.item

\* "red dress" in step ask_budget with the item blue jeans stored: the search
\* is for blue jeans and the item stays.
C29_Witness ==
    /\ Turn /\ ~Last.stop
    /\ prev_context.step = "ask_budget"
    /\ prev_context.item = Some("blue jeans")
    /\ Last.filters.item = Some("red dress")
    /\ search_call # None
    /\ search_call[1].item = Some("blue jeans")
    /\ context.item = Some("blue jeans")

(***************************************************************************)
(* Clear Now.                                                              *)
(***************************************************************************)
\* A step that empties a transcript: Clear Now was pressed.
TranscriptCleared == conversation # << >> /\ conversation' = << >>

\* C30: Clear Now leaves, with the empty transcript, the context at step
\* greet with its four slots null, and the cart, the coupon, the reminders,
\* the alerts, the reviews, the comparison history and the preferences at
\* their initial values.
C30_ClearResetsAll ==
    [][TranscriptCleared =>
          /\ context' = [item |-> None, color |-> None, budget |-> None,
                         price_type |-> None, step |-> "greet"]
          /\ cart' = << >>
          /\ applied_coupon' = None
          /\ reminders' = << >>
          /\ alerts' = << >>
          /\ reviews' = << >>
          /\ compare_history' = << >>
          /\ preferences' = [color |-> None, category |-> None]]_vars

\* The state after a clear pressed in step ask_item (no turn has been made
\* since, and the context before it is the one of that step): everything is
\* at its initial value.
C30_Witness ==
    /\ user_input = None
    /\ prev_context.step = "ask_item"
    /\ context.step = "greet"
    /\ conversation = << >>
    /\ cart = << >> /\ applied_coupon = None
    /\ reminders = << >> /\ alerts = << >> /\ reviews = << >>
    /\ compare_history = << >>
    /\ preferences = [color |-> None, category |-> None]

(***************************************************************************)
(* The cart and its coupon.                                                *)
(***************************************************************************)
\* A step that empties a cart that held something.
CartEmptied == cart # << >> /\ cart' = << >>

\* A step of Confirm & Pay that went through: the orders have one more.
Paid ==
    /\ orders' # None
    /\ Len(orders'[1]) = (IF orders = None THEN 0 ELSE Len(orders[1])) + 1

\* Clear cart was typed on the Cart Reminder screen of a cart that held
\* something: the cart is emptied and no order is added.
CartCleared == CartEmptied /\ orders' = orders

\* C31: Through the cart, coupon, reorder, checkout and clear actions the
\* applied coupon is none or a key of the coupon table, a coupon is applied
\* only to a cart that is not empty, and no amount cart_total may return is
\* a negative number; Clear cart and a checkout that goes through leave the
\* cart empty and the coupon reset, and nothing else empties the cart.
C31_CouponNeedsCart ==
    /\ [](applied_coupon = None \/ applied_coupon[1] \in DOMAIN coupons)
    /\ [](applied_coupon # None => cart # << >>)
    /\ [](\A total \in cart_total(cart, applied_coupon) :
             total = NaN \/ total[1] >= 0)
    /\ [][(Paid \/ CartCleared) => cart' = << >> /\ applied_coupon' = None]_vars
    /\ [][CartEmptied => applied_coupon' = None]_vars

\* A checkout went through, something was put in the cart again, and the
\* flat coupon is applied to a cart whose items add up to less than its
\* value: the total is 0.
C31_Witness ==
    /\ orders # None /\ orders[1][1].id = "3001"
    /\ cart # << >>
    /\ applied_coupon = Some("FLAT5")
    /\ Subtotal(cart) = Some(0)
    /\ cart_total(cart, applied_coupon) = {Some(0)}

============================================================================
